---- MODULE Spec2Model ----
(***************************************************************************)
(* Model of the gerrit_mq merge-queue daemon (gerrit_mq/daemon.py), the    *)
(* queue cache it rotates on every poll (gerrit_mq/functions.py), the      *)
(* history store (gerrit_mq/orm.py), the reads and the write the web front *)
(* end makes (gerrit_mq/webfront.py) and the poll command                  *)
(* (gerrit_mq/__main__.py).                                                *)
(*                                                                         *)
(* A daemon process is identified by its pid.  Every database commit and   *)
(* every call to the review server is one step of the process that makes   *)
(* it, so that other processes working on the same store interleave with   *)
(* it exactly at the places where the code releases the database.          *)
(***************************************************************************)
EXTENDS Integers, Sequences, FiniteSets, Bags, TLC

\* ------------------------------------------------------------------ bounds
\* No more than MaxRid rows are ever added to merge_history.
MaxRid == 3
\* Polls are made while the next poll id is at most MaxPollId.
MaxPollId == 3
\* The review server holds at most MaxUpstream changes that match the query
\* of get_merge_requests.
MaxUpstream == 27
\* A commit message scanned on its own has at most MaxLines lines; the
\* text after the key of a line has at most MaxText characters.
MaxLines == 2
MaxText == 4
\* A list of label entries folded on its own has at most MaxEntries
\* entries, dated in the seconds 1..MaxSec.
MaxEntries == 3
MaxSec == 2
\* A queue whose build steps are run on their own has BuildSteps steps.
BuildSteps == 2
\* At most MaxPollFailures polls of the review server fail during a step.
MaxPollFailures == 2
\* A queue snapshot read on its own holds the rows of at most MaxSnapshot
\* changes.
MaxSnapshot == 3
\* The poll command is run while ChangeInfo would hold at most MaxRows rows.
MaxRows == 4

\* ------------------------------------------------------- orm.StatusKey
TIMEOUT == -3
CANCELED == -2
STEP_FAILED == -1
SUCCESS == 0
IN_PROGRESS == 1

\* ChangeInfo.key: a change without a Priority tag has priority 100
DefaultPriority == 100

\* GerritRest.get_merge_requests: limit=25, the n of the one query it makes
PageLimit == 25
\* run_steps: seconds between two polls of the review server, and between
\* two reads of the Cancellation rows
GerritPollPeriod == 30
DbPollPeriod == 10

\* ------------------------------------------------------------ the world
\* The pids of the daemon processes an operator may launch.
Pids == {1, 2}
\* Content of the pid file when it is absent or unreadable.
NoPid == 0

\* The changes that exist on the review server, with the fields of
\* common.ChangeInfo that the daemon reads.
\* feature_branch: the commit message has a Feature-Branch tag.
\* c5, c6 and c7 are changes of other projects and branches; no reviewer of
\* the model's runs marks them, they come up in queues read on their own.
Changes == {"c1", "c2", "c3", "c4", "c5", "c6", "c7"}
ChangeInfo ==
  [c \in Changes |->
     CASE c = "c1" -> [project |-> "proj", branch |-> "master",
                       priority |-> DefaultPriority, queue_time |-> 1,
                       feature_branch |-> TRUE]
       [] c = "c2" -> [project |-> "proj", branch |-> "master",
                       priority |-> DefaultPriority, queue_time |-> 2,
                       feature_branch |-> TRUE]
       [] c = "c3" -> [project |-> "proj", branch |-> "devel",
                       priority |-> DefaultPriority, queue_time |-> 3,
                       feature_branch |-> TRUE]
       [] c = "c4" -> [project |-> "proj", branch |-> "devel",
                       priority |-> DefaultPriority, queue_time |-> 4,
                       feature_branch |-> FALSE]
       [] c = "c5" -> [project |-> "other", branch |-> "master",
                       priority |-> DefaultPriority, queue_time |-> 5,
                       feature_branch |-> TRUE]
       [] c = "c6" -> [project |-> "proj", branch |-> "master-old",
                       priority |-> DefaultPriority, queue_time |-> 6,
                       feature_branch |-> TRUE]
       [] c = "c7" -> [project |-> "proj", branch |-> "feature",
                       priority |-> DefaultPriority, queue_time |-> 7,
                       feature_branch |-> TRUE]]

\* daemon.QueueSpec: the queues of the configuration (self.queues), in the
\* order of config['daemon.queues'].  branch is the set of branch names the
\* compiled pattern matches with re.match, which looks for the pattern at
\* the start of the name: 'master' matches master and master-old.
QueueSpec ==
  << [name |-> "master", project |-> "proj",
      branch |-> {"master", "master-old"},
      coalesce_count |-> 2, submit_with_rest |-> TRUE],
     [name |-> "devel", project |-> "proj", branch |-> {"devel"},
      coalesce_count |-> 0, submit_with_rest |-> FALSE] >>
\* The sets of changes the review server can hold in a run of the model: the
\* two changes of master, or the change of devel, or the change of devel
\* whose commit message has no Feature-Branch tag.
Uploads == {{"c1", "c2"}, {"c3"}, {"c4"}}
QueueNames == {QueueSpec[i].name : i \in DOMAIN QueueSpec}
NoQueue == "none"

VARIABLES
  \* --- files
  pidfile,         \* pid written in daemon.pidfile_path, or NoPid
  workspace,       \* state of the working clone of each queue
  \* --- the store (orm)
  change_info,     \* bag of ChangeInfo rows [change_id, poll_id]
  merge_history,   \* sequence of MergeStatus rows, indexed by rid
  cancellations,   \* rids of the Cancellation rows
  \* --- the review server
  uploaded,        \* changes that exist on the review server
  ready,           \* changes that are new, Code-Review +2, Merge-Queue +1
  merged,          \* changes the review server has submitted
  \* --- configuration
  silent,          \* config['daemon.silent']
  \* --- per daemon process (locals of MergeDaemon.run and its callees)
  pc,              \* position of the process
  pid_ret,         \* what handle_pid_file returned: 1 is "another daemon runs"
  poll_id,         \* poll_id of the pass
  poll_list,       \* request_queue of poll_gerrit: what get_merge_requests gave
  poll_failed,     \* get_merge_requests took its except branch
  request_queue,   \* request_queue of run
  queue_spec,      \* name of the queue spec of the pass
  coalesce_queue,  \* coalesce_queue of run
  coalescing,      \* the verification is the one called at line 883
  change_queue,    \* change_queue of coalesce_merge
  merge,           \* merge.rid of coalesce_merge
  status,          \* merge.status of coalesce_merge, as held in memory
  step_result,     \* what run_steps gave
  staging_branch,  \* origin has the staging branch of the merge under way
  submit_idx,      \* position of the submit loop in change_queue
  pass_rids,       \* rids of the rows the process created in its current pass
  dirty_changes,   \* queue_spec.dirty_changes, per process and queue
  \* --- the web front end
  web_view,        \* rows the last get_queue of the web front end read
  \* --- files an operator touches
  sentinel,        \* the offline sentinel file exists
  run,             \* a call of run_steps: its locals, its child, its result
  requests,        \* the cancel_merge requests the web front end is serving
  \* --- a function of the program called on its own
  call             \* [fn, arg, ret]: the function, its arguments, its result

\* the locals of poll_gerrit, of the scheduling part of run, of coalesce_merge
pollvars == << poll_id, poll_list, poll_failed >>
schedvars == << request_queue, queue_spec, coalesce_queue, coalescing,
                change_queue >>
mergevars == << merge, status, step_result, staging_branch, submit_idx >>
locals == << pollvars, schedvars, mergevars, pass_rids, dirty_changes >>

store == << change_info, merge_history, cancellations >>
gerrit == << uploaded, ready, merged >>

\* what the daemon neither reads nor writes while it polls and verifies
outside == << web_view, sentinel, call, run, requests >>

vars == << pidfile, workspace, store, gerrit, silent, pc, pid_ret, locals, outside >>

\* What run_steps gave: nothing yet, a returned status, or a RuntimeError.
NoResult == [kind |-> "none", value |-> IN_PROGRESS]
Returned(st) == [kind |-> "return", value |-> st]
Raised == [kind |-> "raise", value |-> STEP_FAILED]
NoRid == 0
\* No function has been called on its own.
NoCall == [fn |-> "none"]
\* The threads of the web front end that serve requests, and a thread
\* that serves none.
Workers == {1, 2}
Idle == [at |-> "idle"]
\* run_steps has not been called
NoRun == [at |-> "none"]

MaxOf(S) == CHOOSE x \in S : \A y \in S : y <= x
Range(q) == {q[i] : i \in DOMAIN q}

\* ---------------------------------------------------------------- helpers
\* ChangeInfo.key restricted to the fields that differ between the changes
\* of this model: (Priority or 100, queue_time).
KeyLess(a, b) ==
  \/ ChangeInfo[a].priority < ChangeInfo[b].priority
  \/ /\ ChangeInfo[a].priority = ChangeInfo[b].priority
     /\ ChangeInfo[a].queue_time < ChangeInfo[b].queue_time

\* sorted(changeinfo_list, key=ChangeInfo.key)
RECURSIVE SortedByKey(_)
SortedByKey(S) ==
  IF S = {} THEN << >>
  ELSE LET c == CHOOSE x \in S : \A y \in S : ~KeyLess(y, x)
       IN  << c >> \o SortedByKey(S \ {c})

\* GerritRest.get_merge_requests: the ready changes in key order, or the
\* empty list when the query raised (failed).  Changes holds fewer changes
\* than PageLimit, so the one page of the query holds them all.
get_merge_requests(failed) ==
  IF failed THEN << >> ELSE SortedByKey(ready)

\* functions.get_next_poll_id
get_next_poll_id ==
  IF BagToSet(change_info) = {} THEN 1
  ELSE MaxOf({r.poll_id : r \in BagToSet(change_info)}) + 1

\* The rows poll_gerrit adds for the list q under poll id p.
NewRows(q, p) == SetToBag({[change_id |-> c, poll_id |-> p] : c \in Range(q)})

\* sql.query(ChangeInfo).filter(poll_id != p).delete(): the rows that stay.
DeleteStale(rows, p) ==
  LET keep == {r \in BagToSet(rows) : r.poll_id = p}
  IN  [r \in keep |-> rows[r]]

\* order_by(poll_id.desc(), priority.asc(), queue_time.asc())
RowLess(a, b) ==
  \/ a.poll_id > b.poll_id
  \/ /\ a.poll_id = b.poll_id
     /\ KeyLess(a.change_id, b.change_id)

\* The query of functions.get_queue without filters, offset or limit: the
\* rows in the order of its order_by.
RECURSIVE OrderedRows(_)
OrderedRows(rows) ==
  IF BagToSet(rows) = {} THEN << >>
  ELSE LET r == CHOOSE x \in BagToSet(rows) :
                  \A y \in BagToSet(rows) : ~RowLess(y, x)
           rest == IF rows[r] = 1
                   THEN [x \in BagToSet(rows) \ {r} |-> rows[x]]
                   ELSE [rows EXCEPT ![r] = @ - 1]
       IN  << r >> \o OrderedRows(rest)

\* functions.get_queue: one common.ChangeInfo per row (as_dict carries no
\* poll_id), in the order of the query.
get_queue(rows) ==
  LET q == OrderedRows(rows) IN [i \in DOMAIN q |-> q[i].change_id]

\* The index in QueueSpec of the first spec of the change's project whose
\* branch pattern matches the change's branch; 0 when there is none.
MatchingSpec(c) ==
  LET hits == {i \in DOMAIN QueueSpec :
                 /\ QueueSpec[i].project = ChangeInfo[c].project
                 /\ ChangeInfo[c].branch \in QueueSpec[i].branch}
  IN  IF hits = {} THEN 0 ELSE CHOOSE i \in hits : \A j \in hits : i <= j

\* A faulty filter: every request of the project is taken.
get_requests_matching_project(q, project, branch) ==
  SelectSeq(q, LAMBDA c : ChangeInfo[c].project = project)

\* daemon.get_requests_matching
get_requests_matching(q, project, branch) ==
  SelectSeq(q, LAMBDA c : /\ ChangeInfo[c].project = project
                          /\ ChangeInfo[c].branch = branch)

\* daemon.get_requests_from_single_queue: <<index of the spec, requests>>,
\* <<0, << >> >> when no request matches a spec.
get_requests_from_single_queue(q) ==
  LET hits == {k \in DOMAIN q : MatchingSpec(q[k]) # 0}
  IN  IF hits = {} THEN << 0, << >> >>
      ELSE LET k == CHOOSE i \in hits : \A j \in hits : i <= j
           IN  << MatchingSpec(q[k]),
                  get_requests_matching(q, ChangeInfo[q[k]].project,
                                        ChangeInfo[q[k]].branch) >>

\* A faulty loop: the dirty changes are not looked at.
CoalesceLoopIgnoreDirty(acc, rq, dirty, count) ==
  SubSeq(rq, 1, IF Len(rq) < count THEN Len(rq) ELSE count)

\* The loop of MergeDaemon.run that builds coalesce_queue: acc is the queue
\* built so far, rq what is left of request_queue.
RECURSIVE CoalesceLoop(_, _, _, _)
CoalesceLoop(acc, rq, dirty, count) ==
  IF rq = << >> THEN acc
  ELSE IF Head(rq) \in dirty THEN acc
  ELSE IF Len(acc) + 1 >= count THEN Append(acc, Head(rq))
  ELSE CoalesceLoop(Append(acc, Head(rq)), Tail(rq), dirty, count)

coalesce_queue_of(rq, dirty, count) == CoalesceLoop(<< >>, rq, dirty, count)

SpecIndex(name) == CHOOSE i \in DOMAIN QueueSpec : QueueSpec[i].name = name

\* ------------------------------------------------------------------- Init
Init ==
  /\ pidfile = NoPid
  /\ workspace = [n \in QueueNames |-> "absent"]
  /\ change_info = EmptyBag
  /\ merge_history = << >>
  /\ cancellations = {}
  /\ uploaded \in Uploads
  /\ ready = {}
  /\ merged = {}
  /\ silent \in BOOLEAN
  /\ pc = [d \in Pids |-> "off"]
  /\ pid_ret = [d \in Pids |-> 0]
  /\ poll_id = [d \in Pids |-> 0]
  /\ poll_list = [d \in Pids |-> << >>]
  /\ poll_failed = [d \in Pids |-> FALSE]
  /\ request_queue = [d \in Pids |-> << >>]
  /\ queue_spec = [d \in Pids |-> NoQueue]
  /\ coalesce_queue = [d \in Pids |-> << >>]
  /\ coalescing = [d \in Pids |-> FALSE]
  /\ change_queue = [d \in Pids |-> << >>]
  /\ merge = [d \in Pids |-> NoRid]
  /\ status = [d \in Pids |-> IN_PROGRESS]
  /\ step_result = [d \in Pids |-> NoResult]
  /\ staging_branch = [d \in Pids |-> FALSE]
  /\ submit_idx = [d \in Pids |-> 1]
  /\ pass_rids = [d \in Pids |-> {}]
  /\ dirty_changes = [d \in Pids |-> [n \in QueueNames |-> {}]]
  /\ web_view = << >>
  /\ sentinel = FALSE
  /\ run = NoRun
  /\ requests = [w \in Workers |-> Idle]
  /\ call = NoCall

\* The locals of a process go out of scope: poll_gerrit returned, ...
ClearPoll(d) ==
  /\ poll_id' = [poll_id EXCEPT ![d] = 0]
  /\ poll_list' = [poll_list EXCEPT ![d] = << >>]
  /\ poll_failed' = [poll_failed EXCEPT ![d] = FALSE]

\* ... coalesce_merge returned, ...
ClearMerge(d) ==
  /\ merge' = [merge EXCEPT ![d] = NoRid]
  /\ status' = [status EXCEPT ![d] = IN_PROGRESS]
  /\ step_result' = [step_result EXCEPT ![d] = NoResult]
  /\ staging_branch' = [staging_branch EXCEPT ![d] = FALSE]
  /\ submit_idx' = [submit_idx EXCEPT ![d] = 1]

\* ... the pass of the loop of run ended.
ClearPass(d) ==
  /\ request_queue' = [request_queue EXCEPT ![d] = << >>]
  /\ queue_spec' = [queue_spec EXCEPT ![d] = NoQueue]
  /\ coalesce_queue' = [coalesce_queue EXCEPT ![d] = << >>]
  /\ coalescing' = [coalescing EXCEPT ![d] = FALSE]
  /\ change_queue' = [change_queue EXCEPT ![d] = << >>]
  /\ pass_rids' = [pass_rids EXCEPT ![d] = {}]

\* The process ends: run returns or an exception leaves it.  Its memory,
\* dirty_changes included, is gone; the store and the pid file stay.
Exit(d) ==
  /\ pc' = [pc EXCEPT ![d] = "off"]
  /\ pid_ret' = [pid_ret EXCEPT ![d] = 0]
  /\ dirty_changes' = [dirty_changes EXCEPT ![d] = [n \in QueueNames |-> {}]]
  /\ ClearPoll(d)
  /\ ClearMerge(d)
  /\ ClearPass(d)

\* ------------------------------------------------------------ the daemon
\* /proc/<pid>/stat exists
Alive(p) == p \in Pids /\ pc[p] # "off"

\* What handle_pid_file returns for process d: 1 when the pid file names a
\* live process other than d, else None (0), having written the pid file.
handle_pid_file(d) ==
  IF pidfile # NoPid /\ pidfile # d /\ Alive(pidfile) THEN 1 ELSE 0

\* MergeDaemon.run, lines 825-829: handle_pid_file is called and what it
\* returns is dropped; run goes on to mark_old_changes_as_failed.
HandlePidFile(d) ==
  /\ pc[d] = "off"
  /\ pid_ret' = [pid_ret EXCEPT ![d] = handle_pid_file(d)]
  /\ pidfile' = IF handle_pid_file(d) = 1 THEN pidfile ELSE d
  /\ pc' = [pc EXCEPT ![d] = "mark"]
  /\ UNCHANGED << workspace, store, gerrit, silent, locals, outside >>

\* A faulty recovery: the stale rows are left as they are.
mark_old_changes_skipped(rows) == rows

\* The rows of merge_history after mark_old_changes_as_failed.
mark_old_changes_as_failed(rows) ==
  [r \in DOMAIN rows |->
     IF rows[r].status = IN_PROGRESS
     THEN [rows[r] EXCEPT !.status = CANCELED]
     ELSE rows[r]]

\* MergeDaemon.run, line 831
MarkOldChangesAsFailed(d) ==
  /\ pc[d] = "mark"
  /\ merge_history' = mark_old_changes_as_failed(merge_history)
  /\ pc' = [pc EXCEPT ![d] = "loop"]
  /\ UNCHANGED << pidfile, workspace, change_info, cancellations, gerrit,
                  silent, pid_ret, locals, outside >>

\* MergeDaemon.run, lines 838-844: the test of the offline sentinel at the
\* top of a pass.  With the file there the process enters the wait loop,
\* else it goes on to the backoff sleep.
CheckSentinel(d) ==
  /\ pc[d] = "loop"
  /\ pc' = [pc EXCEPT ![d] = IF sentinel THEN "wait" ELSE "backoff"]
  /\ UNCHANGED << pidfile, workspace, store, gerrit, silent, pid_ret, locals, outside >>

\* MergeDaemon.run, lines 840-844: the wait loop ends when the sentinel is
\* gone, and the pass is started again from the top.
OfflineWait(d) ==
  /\ pc[d] = "wait"
  /\ ~sentinel
  /\ pc' = [pc EXCEPT ![d] = "loop"]
  /\ UNCHANGED << pidfile, workspace, store, gerrit, silent, pid_ret, locals, outside >>

\* A faulty restart: the watch manifest is looked at everywhere.
may_restart_anywhere(p) == p # "off"

\* MergeDaemon.run, lines 835 and 841: the places of the loop where
\* restart_if_modified is called.
may_restart(p) == p \in {"loop", "wait"}

\* functions.restart_if_modified finds a file of the watch manifest
\* changed: it removes the pid file and executes the program again, in the
\* same process, from its start.
RestartIfModified(d) ==
  /\ may_restart(pc[d])
  /\ pidfile' = NoPid
  /\ Exit(d)
  /\ UNCHANGED << workspace, store, gerrit, silent, outside >>

\* MergeDaemon.run, lines 846-856: the backoff sleep of a pass, then
\* get_next_poll_id.
GetNextPollId(d) ==
  /\ pc[d] = "backoff"
  /\ get_next_poll_id <= MaxPollId
  /\ poll_id' = [poll_id EXCEPT ![d] = get_next_poll_id]
  /\ pc' = [pc EXCEPT ![d] = "poll"]
  /\ UNCHANGED << pidfile, workspace, store, gerrit, silent, pid_ret, poll_list,
                  poll_failed, schedvars, mergevars, pass_rids, dirty_changes,
                  outside >>

\* functions.poll_gerrit, lines 61-79, run by process d: the query of the
\* review server and the commit of the new rows.
poll_gerrit_add(d) ==
  \E failed \in BOOLEAN :
    /\ poll_failed' = [poll_failed EXCEPT ![d] = failed]
    /\ poll_list' = [poll_list EXCEPT ![d] = get_merge_requests(failed)]
    /\ change_info' =
         change_info (+) NewRows(get_merge_requests(failed), poll_id[d])

\* functions.poll_gerrit, lines 81-85, run by process d: the delete of the
\* rows of other polls and its commit.
poll_gerrit_delete(d) ==
  change_info' = DeleteStale(change_info, poll_id[d])

\* MergeDaemon.run, line 857: the first commit of poll_gerrit.
PollInsert(d) ==
  /\ pc[d] = "poll"
  /\ poll_gerrit_add(d)
  /\ pc' = [pc EXCEPT ![d] = "poll_delete"]
  /\ UNCHANGED << pidfile, workspace, merge_history, cancellations, gerrit, silent,
                  pid_ret, poll_id, schedvars, mergevars, pass_rids,
                  dirty_changes, outside >>

\* MergeDaemon.run, line 857: the second commit of poll_gerrit, which then
\* returns.
PollDelete(d) ==
  /\ pc[d] = "poll_delete"
  /\ poll_gerrit_delete(d)
  /\ pc' = [pc EXCEPT ![d] = "schedule"]
  /\ ClearPoll(d)
  /\ UNCHANGED << pidfile, workspace, merge_history, cancellations, gerrit, silent,
                  pid_ret, schedvars, mergevars, pass_rids, dirty_changes,
                  outside >>

\* __main__.PollGerrit: the poll command is started as process d with
\* --poll-id id (0 when the option is not given).
PollGerritCmd(d) ==
  /\ pc[d] = "off"
  /\ \E id \in 0..MaxPollId : poll_id' = [poll_id EXCEPT ![d] = id]
  /\ pc' = [pc EXCEPT ![d] = "cmd_poll"]
  /\ UNCHANGED << pidfile, workspace, store, gerrit, silent, pid_ret, poll_list,
                  poll_failed, schedvars, mergevars, pass_rids, dirty_changes,
                  outside >>

\* __main__.PollGerrit.run_args: the first commit of poll_gerrit.
CmdPollInsert(d) ==
  /\ pc[d] = "cmd_poll"
  /\ BagCardinality(change_info) + Cardinality(ready) <= MaxRows
  /\ poll_gerrit_add(d)
  /\ pc' = [pc EXCEPT ![d] = "cmd_delete"]
  /\ UNCHANGED << pidfile, workspace, merge_history, cancellations, gerrit, silent,
                  pid_ret, poll_id, schedvars, mergevars, pass_rids,
                  dirty_changes, outside >>

\* __main__.PollGerrit.run_args: the second commit of poll_gerrit; the
\* command ends.
CmdPollDelete(d) ==
  /\ pc[d] = "cmd_delete"
  /\ poll_gerrit_delete(d)
  /\ Exit(d)
  /\ UNCHANGED << pidfile, workspace, merge_history, cancellations, gerrit, silent,
                  outside >>

\* MergeDaemon.run, lines 858-897: the read of the queue and the choice of
\* the changes to verify.
Schedule(d) ==
  /\ pc[d] = "schedule"
  /\ LET found == get_requests_from_single_queue(get_queue(change_info))
         spec == QueueSpec[found[1]]
         rq == found[2]
         cq == IF spec.coalesce_count > 0 /\ Len(rq) > 1
               THEN coalesce_queue_of(rq, dirty_changes[d][spec.name],
                                      spec.coalesce_count)
               ELSE << >>
     IN  IF found[1] = 0 \/ rq = << >>
         THEN /\ pc' = [pc EXCEPT ![d] = "loop"]
              /\ UNCHANGED schedvars
         ELSE /\ pc' = [pc EXCEPT ![d] = "create"]
              /\ request_queue' = [request_queue EXCEPT ![d] = rq]
              /\ queue_spec' = [queue_spec EXCEPT ![d] = spec.name]
              /\ coalesce_queue' = [coalesce_queue EXCEPT ![d] = cq]
              /\ coalescing' = [coalescing EXCEPT ![d] = Len(cq) > 1]
              /\ change_queue' = [change_queue EXCEPT ![d] =
                                    IF Len(cq) > 1 THEN cq
                                    ELSE SubSeq(rq, 1, 1)]
  /\ UNCHANGED << pidfile, workspace, store, gerrit, silent, pid_ret, pollvars,
                  mergevars, pass_rids, dirty_changes, outside >>

\* create_sql_records, lines 371-375: the changes of the queue all have a
\* Feature-Branch tag.
has_feature_branches(q) == \A c \in Range(q) : ChangeInfo[c].feature_branch

\* daemon.create_sql_records, called at the top of coalesce_merge (line
\* 705, before the try): the MergeStatus row of the verification is
\* committed; then a change without Feature-Branch tag raises a
\* RuntimeError that nothing catches, and the process ends.
CreateSqlRecords(d) ==
  /\ pc[d] = "create"
  /\ Len(merge_history) < MaxRid
  /\ merge_history' = Append(merge_history,
       [project |-> QueueSpec[SpecIndex(queue_spec[d])].project,
        branch |-> ChangeInfo[change_queue[d][1]].branch,
        status |-> IN_PROGRESS])
  /\ IF has_feature_branches(change_queue[d])
     THEN /\ merge' = [merge EXCEPT ![d] = Len(merge_history) + 1]
          /\ pass_rids' = [pass_rids EXCEPT ![d] =
                             @ \cup {Len(merge_history) + 1}]
          /\ pc' = [pc EXCEPT ![d] = "stage"]
          /\ UNCHANGED << pid_ret, pollvars, schedvars, status, step_result,
                          staging_branch,
                          submit_idx, dirty_changes >>
     ELSE Exit(d)
  /\ UNCHANGED << pidfile, workspace, change_info, cancellations, gerrit, silent,
                  outside >>

\* How the staging of coalesce_merge can end: the staging branch is built
\* and pushed; the clone of get_or_clone_repo fails; or a git operation on
\* the clone fails (fetch, checkout, merge, commit, push).
StageOutcomes == {"staged", "clone_failed", "git_failed"}

\* A faulty handler: a failed staging leaves the clone as it is.
workspace_after_stage_no_cleanup(ws, outcome) ==
  IF outcome = "clone_failed" THEN ws ELSE "dirty"

\* coalesce_merge, lines 714-756: the working clone when the staging has
\* ended.  A staged clone holds the staging branch and the merges.  When the
\* clone failed repo is None and nothing is done; when a git operation
\* failed cleanup_repo is called at line 756.
workspace_after_stage(ws, outcome) ==
  CASE outcome = "staged" -> "dirty"
    [] outcome = "clone_failed" -> ws
    [] outcome = "git_failed" -> "clean"

\* coalesce_merge, lines 714-736: clone, "in submission" reviews, fetch,
\* merge_features_together and the push of the staging branch.  A failure of
\* a git operation is caught at line 751, and cleanup_repo is called when
\* there is a clone.  get_or_clone_repo makes a clone only when there is
\* none.
Stage(d) ==
  /\ pc[d] = "stage"
  /\ \E outcome \in StageOutcomes :
       /\ outcome = "clone_failed" => workspace[queue_spec[d]] = "absent"
       /\ workspace' = [workspace EXCEPT ![queue_spec[d]] =
                          workspace_after_stage(@, outcome)]
       /\ IF outcome = "staged"
          THEN /\ pc' = [pc EXCEPT ![d] = "steps"]
               /\ staging_branch' = [staging_branch EXCEPT ![d] = ~silent]
               /\ UNCHANGED status
          ELSE /\ pc' = [pc EXCEPT ![d] = "submit"]
               /\ status' = [status EXCEPT ![d] = STEP_FAILED]
               /\ UNCHANGED staging_branch
  /\ UNCHANGED << pidfile, store, gerrit, silent, pid_ret, pollvars,
                  schedvars, merge, step_result, submit_idx, pass_rids,
                  dirty_changes, outside >>

\* GerritRest.get_changes_canceled_on_gerrit: the changes of the queue that
\* have lost their Merge-Queue +1.
get_changes_canceled_on_gerrit(q) == {c \in Range(q) : c \notin ready}

\* What run_steps can give for process d: SUCCESS when every step exits 0,
\* a RuntimeError when a step exits non-zero, CANCELED when a poll of the
\* review server or of the Cancellation rows finds the merge canceled.
run_steps(d) ==
  {Returned(SUCCESS), Raised} \cup
  (IF \/ merge[d] \in cancellations
      \/ get_changes_canceled_on_gerrit(change_queue[d]) # {}
   THEN {Returned(CANCELED)} ELSE {})

\* merge.status at line 755 when run_steps gave ret and the delete of the
\* staging branch (line 749) raised or not.
status_after_steps(ret, delete_raised) ==
  IF ret.kind = "raise" \/ delete_raised THEN STEP_FAILED ELSE ret.value

\* coalesce_merge, lines 745-753: the staging branch is on origin after
\* run_steps when it was pushed and the delete of line 749 was not reached
\* (run_steps raised) or raised itself.
staging_after_steps(pushed, ret, delete_raised) ==
  pushed /\ (ret.kind = "raise" \/ delete_raised)

\* coalesce_merge, lines 745-756: run_steps, the delete of the staging
\* branch, and cleanup_repo.
RunSteps(d) ==
  /\ pc[d] = "steps"
  /\ \E ret \in run_steps(d), delete_raised \in BOOLEAN :
       /\ delete_raised => ~silent /\ ret.kind # "raise"
       /\ step_result' = [step_result EXCEPT ![d] = ret]
       /\ status' = [status EXCEPT ![d] =
                       status_after_steps(ret, delete_raised)]
       /\ staging_branch' = [staging_branch EXCEPT ![d] =
                               staging_after_steps(@, ret, delete_raised)]
  /\ workspace' = [workspace EXCEPT ![queue_spec[d]] = "clean"]
  /\ pc' = [pc EXCEPT ![d] = "submit"]
  /\ UNCHANGED << pidfile, store, gerrit, silent, pid_ret, pollvars,
                  schedvars, merge, submit_idx, pass_rids, dirty_changes,
                  outside >>

\* A faulty guard of the submit: only a failed step withholds it.
should_submit_unless_step_failed(st) == st # STEP_FAILED

\* coalesce_merge, line 758: the changes are submitted when this holds.
should_submit(st) == st = SUCCESS

\* A faulty loop of the submit: it goes on after a refusal.
next_submit_idx_no_break(response, idx, n) == idx + 1

\* submit_changes_with_rest, lines 314-323: the index of the change the
\* loop over a queue of n changes handles next, n + 1 when the loop is over.
next_submit_idx(response, idx, n) ==
  IF response = "SUBMITTED" THEN idx + 1 ELSE n + 1

\* submit_changes_with_rest: one turn of its loop.  The review server merges
\* the change and answers SUBMITTED, or refuses (the loop breaks), or the
\* request fails: submit_change returns None and response.get raises an
\* AttributeError that nothing catches.
SubmitWithRest(d) ==
  /\ pc[d] = "submit"
  /\ should_submit(status[d])
  /\ submit_idx[d] <= Len(change_queue[d])
  /\ QueueSpec[SpecIndex(queue_spec[d])].submit_with_rest
  /\ LET c == change_queue[d][submit_idx[d]]
     IN  \E response \in {"SUBMITTED", "REFUSED", "NONE"} :
           CASE response = "SUBMITTED" ->
                  /\ c \notin merged
                  /\ merged' = merged \cup {c}
                  /\ ready' = ready \ {c}
                  /\ submit_idx' = [submit_idx EXCEPT ![d] =
                       next_submit_idx(response, @, Len(change_queue[d]))]
                  /\ UNCHANGED << uploaded, pc, pid_ret, pollvars, schedvars, merge,
                                  status, step_result, staging_branch, pass_rids,
                                  dirty_changes >>
             [] response = "REFUSED" ->
                  /\ submit_idx' = [submit_idx EXCEPT ![d] =
                       next_submit_idx(response, @, Len(change_queue[d]))]
                  /\ UNCHANGED << gerrit, pc, pid_ret, pollvars, schedvars,
                                  merge, status, step_result, staging_branch, pass_rids,
                                  dirty_changes >>
             [] response = "NONE" ->
                  /\ Exit(d)
                  /\ UNCHANGED gerrit
  /\ UNCHANGED << pidfile, workspace, store, silent, outside >>

\* submit_changes_with_cmd: one turn of its loop.  A git command raises (not
\* caught: the process ends), Popen raises OSError (the loop breaks), or the
\* submit command runs and merges the change or not.  The turn checks the
\* target branch out, pulls and merges in the clone, which cleanup_repo is
\* not called on again.
SubmitWithCmd(d) ==
  /\ pc[d] = "submit"
  /\ should_submit(status[d])
  /\ submit_idx[d] <= Len(change_queue[d])
  /\ ~QueueSpec[SpecIndex(queue_spec[d])].submit_with_rest
  /\ LET c == change_queue[d][submit_idx[d]]
     IN  \E outcome \in {"MERGED", "NOT_MERGED", "POPEN_RAISED",
                         "GIT_RAISED"} :
           CASE outcome = "MERGED" ->
                  /\ c \notin merged
                  /\ merged' = merged \cup {c}
                  /\ ready' = ready \ {c}
                  /\ submit_idx' = [submit_idx EXCEPT ![d] = @ + 1]
                  /\ UNCHANGED << uploaded, pc, pid_ret, pollvars, schedvars, merge,
                                  status, step_result, staging_branch, pass_rids,
                                  dirty_changes >>
             [] outcome = "NOT_MERGED" ->
                  /\ submit_idx' = [submit_idx EXCEPT ![d] = @ + 1]
                  /\ UNCHANGED << gerrit, pc, pid_ret, pollvars, schedvars,
                                  merge, status, step_result, staging_branch, pass_rids,
                                  dirty_changes >>
             [] outcome = "POPEN_RAISED" ->
                  /\ submit_idx' = [submit_idx EXCEPT ![d] =
                                      Len(change_queue[d]) + 1]
                  /\ UNCHANGED << gerrit, pc, pid_ret, pollvars, schedvars,
                                  merge, status, step_result, staging_branch, pass_rids,
                                  dirty_changes >>
             [] outcome = "GIT_RAISED" ->
                  /\ Exit(d)
                  /\ UNCHANGED gerrit
  /\ workspace' = [workspace EXCEPT ![queue_spec[d]] = "dirty"]
  /\ UNCHANGED << pidfile, store, silent, outside >>

\* coalesce_merge, lines 774-777: the Merge-Queue score of the result review.
review_score(q, st) == IF Len(q) = 1 /\ st # SUCCESS THEN -1 ELSE 0

\* A faulty bookkeeping: the changes are marked dirty whatever the status.
dirty_after_merge_always_add(dirty, q, st) == dirty \cup Range(q)

\* coalesce_merge, lines 815-822: dirty_changes when coalesce_merge returns.
dirty_after_merge(dirty, q, st) ==
  IF st = SUCCESS THEN dirty \ Range(q) ELSE dirty \cup Range(q)

\* A faulty bookkeeping: the discard of line 904 is applied to the head of
\* the queue after a coalesced verification too.
dirty_after_run_discard_head(dirty, coalesced, cq, rq, st) ==
  (IF st = SUCCESS THEN dirty \ Range(IF coalesced THEN cq ELSE rq)
   ELSE dirty \cup Range(cq)) \ {rq[1]}

\* MergeDaemon.run, lines 884-890 and 904: dirty_changes after run has seen
\* the result of a coalesced verification of cq, or of the serial
\* verification of the head of rq.
dirty_after_run(dirty, coalesced, cq, rq, st) ==
  IF coalesced
  THEN IF st = SUCCESS THEN dirty_after_merge(dirty, cq, st)
       ELSE dirty_after_merge(dirty, cq, st) \cup Range(cq)
  ELSE dirty_after_merge(dirty, SubSeq(rq, 1, 1), st) \ {rq[1]}

\* coalesce_merge, lines 766-822, and what run does with its result, lines
\* 884-904: the result review, the commit of the final status, dirty_changes;
\* after a failed coalesced verification run falls through to line 903 and
\* calls coalesce_merge on the head of request_queue.
FinishMerge(d) ==
  /\ pc[d] = "submit"
  /\ ~should_submit(status[d]) \/ submit_idx[d] > Len(change_queue[d])
  /\ \E posted \in BOOLEAN :
       ready' = IF ~silent /\ posted
                   /\ review_score(change_queue[d], status[d]) = -1
                THEN ready \ Range(change_queue[d])
                ELSE ready
  /\ merge_history' = [merge_history EXCEPT ![merge[d]].status = status[d]]
  /\ dirty_changes' = [dirty_changes EXCEPT ![d][queue_spec[d]] =
       dirty_after_run(@, coalescing[d], change_queue[d], request_queue[d],
                       status[d])]
  /\ ClearMerge(d)
  /\ IF coalescing[d] /\ status[d] # SUCCESS
     THEN /\ pc' = [pc EXCEPT ![d] = "create"]
          /\ coalescing' = [coalescing EXCEPT ![d] = FALSE]
          /\ change_queue' = [change_queue EXCEPT ![d] =
                                SubSeq(request_queue[d], 1, 1)]
          /\ UNCHANGED << request_queue, queue_spec, coalesce_queue,
                          pass_rids >>
     ELSE /\ pc' = [pc EXCEPT ![d] = "loop"]
          /\ ClearPass(d)
  /\ UNCHANGED << pidfile, workspace, change_info, cancellations,
                  uploaded, merged, silent, pid_ret, pollvars, outside >>

\* MergeDaemon.run, lines 910-911: KeyboardInterrupt breaks the loop and run
\* returns; the pid file is left as it is.
Interrupt(d) ==
  /\ pc[d] \notin {"off", "mark"}
  /\ Exit(d)
  /\ UNCHANGED << pidfile, workspace, store, gerrit, silent, outside >>

\* ------------------------------------------------- reviewers and frontend
\* A reviewer gives Merge-Queue +1 to an open change.
MarkReady(c) ==
  /\ c \in uploaded
  /\ c \notin merged
  /\ c \notin ready
  /\ ready' = ready \cup {c}
  /\ UNCHANGED << pidfile, workspace, store, uploaded, merged, silent, pc, pid_ret, locals,
                  outside >>

\* A reviewer takes the Merge-Queue +1 back.
RemoveScore(c) ==
  /\ c \in ready
  /\ ready' = ready \ {c}
  /\ UNCHANGED << pidfile, workspace, store, uploaded, merged, silent, pc, pid_ret, locals,
                  outside >>

\* A faulty cancel: the MergeStatus row of the merge is marked too.
cancel_merge_marks_row(rid) ==
  /\ rid \notin cancellations
  /\ cancellations' = cancellations \cup {rid}
  /\ merge_history' =
       [r \in DOMAIN merge_history |->
          IF r = rid THEN [merge_history[r] EXCEPT !.status = CANCELED]
          ELSE merge_history[r]]
  /\ UNCHANGED << pidfile, workspace, change_info, gerrit,
                  silent, pc, pid_ret, locals, outside >>

\* webfront.cancel_merge: a Cancellation row for rid, once.
cancel_merge(rid) ==
  /\ rid \notin cancellations
  /\ cancellations' = cancellations \cup {rid}
  /\ UNCHANGED << pidfile, workspace, change_info, merge_history, gerrit,
                  silent, pc, pid_ret, locals, outside >>

\* An operator creates the offline sentinel file.
CreateSentinel ==
  /\ ~sentinel
  /\ sentinel' = TRUE
  /\ UNCHANGED << pidfile, workspace, store, gerrit, silent, pc, pid_ret, locals,
                  web_view, call, run, requests >>

\* An operator removes the offline sentinel file.
RemoveSentinel ==
  /\ sentinel
  /\ sentinel' = FALSE
  /\ UNCHANGED << pidfile, workspace, store, gerrit, silent, pc, pid_ret, locals,
                  web_view, call, run, requests >>

\* webfront.get_queue: the rows of ChangeInfo a reader of the queue gets.
WebGetQueue ==
  /\ web_view' = OrderedRows(change_info)
  /\ UNCHANGED << sentinel, call, run, requests >>
  /\ UNCHANGED << pidfile, workspace, store, gerrit, silent, pc, pid_ret, locals >>

\* ------------------------------------------------------- specifications
Daemon(d) ==
  \/ HandlePidFile(d)
  \/ MarkOldChangesAsFailed(d)
  \/ CheckSentinel(d)
  \/ GetNextPollId(d)
  \/ PollInsert(d)
  \/ PollDelete(d)
  \/ Schedule(d)
  \/ CreateSqlRecords(d)
  \/ Stage(d)
  \/ RunSteps(d)
  \/ SubmitWithRest(d)
  \/ SubmitWithCmd(d)
  \/ FinishMerge(d)
  \/ Interrupt(d)

Reviewers ==
  \/ \E c \in Changes : MarkReady(c)
  \/ \E c \in Changes : RemoveScore(c)

\* One daemon process and the reviewers.
Next ==
  \/ Daemon(1)
  \/ Reviewers

Spec == Init /\ [][Next]_vars

\* One daemon process, the reviewers and the cancel button of the web front
\* end.
NextCancel ==
  \/ Daemon(1)
  \/ Reviewers
  \/ \E rid \in 1..MaxRid : cancel_merge(rid)

SpecCancel == Init /\ [][NextCancel]_vars

\* One daemon process, the reviewers, and an operator who creates and
\* removes the offline sentinel and changes the files of the watch manifest.
NextOps ==
  \/ Daemon(1)
  \/ OfflineWait(1)
  \/ RestartIfModified(1)
  \/ Reviewers
  \/ CreateSentinel
  \/ RemoveSentinel

SpecOps == Init /\ [][NextOps]_vars

\* A daemon process from its start to the creation of the MergeStatus row of
\* a verification.
RunToCreate(d) ==
  \/ HandlePidFile(d)
  \/ MarkOldChangesAsFailed(d)
  \/ CheckSentinel(d)
  \/ GetNextPollId(d)
  \/ PollInsert(d)
  \/ PollDelete(d)
  \/ Schedule(d)
  \/ CreateSqlRecords(d)
  \/ Interrupt(d)

\* Two daemon processes launched with the same configuration.
NextTwo ==
  \/ \E d \in Pids : RunToCreate(d)
  \/ \E c \in Changes : MarkReady(c)

InitTwo == Init /\ ~silent

SpecTwo == InitTwo /\ [][NextTwo]_vars

\* A daemon process, the reviewers, and a second process that is launched
\* with the same configuration and runs up to the top of its loop.
NextRecovery ==
  \/ Daemon(1)
  \/ Reviewers
  \/ HandlePidFile(2)
  \/ MarkOldChangesAsFailed(2)
  \/ Interrupt(2)

SpecRecovery == Init /\ [][NextRecovery]_vars

\* The daemon process on its own, with changes that are given their
\* Merge-Queue +1 before the daemon is first launched and none after: not
\* silent, no sentinel, no interrupt; every poll and every review post
\* succeeds, every build step ends, and every submit of a verified change
\* merges it.  The daemon is launched once.
InitDrain == Init /\ ~silent

NextDrain ==
  \/ \E c \in Changes :
       MarkReady(c) /\ pc[1] = "off" /\ change_info = EmptyBag
  \/ HandlePidFile(1) /\ change_info = EmptyBag
  \/ MarkOldChangesAsFailed(1)
  \/ CheckSentinel(1)
  \/ GetNextPollId(1)
  \/ PollInsert(1) /\ ~poll_failed'[1]
  \/ PollDelete(1)
  \/ Schedule(1)
  \/ CreateSqlRecords(1)
  \/ Stage(1)
  \/ RunSteps(1)
  \/ SubmitWithRest(1) /\ merged' # merged
  \/ SubmitWithCmd(1) /\ merged' # merged
  \/ FinishMerge(1) /\ (review_score(change_queue[1], status[1]) = -1
                         => ready' # ready)

SpecDrain == InitDrain /\ [][NextDrain]_vars /\ WF_vars(NextDrain)

\* One daemon process up to its read of the queue, and the web front end
\* reading the queue.
NextWeb ==
  \/ HandlePidFile(1)
  \/ MarkOldChangesAsFailed(1)
  \/ CheckSentinel(1)
  \/ GetNextPollId(1)
  \/ PollInsert(1)
  \/ PollDelete(1)
  \/ Schedule(1)
  \/ Interrupt(1)
  \/ Reviewers
  \/ WebGetQueue

SpecWeb == Init /\ [][NextWeb]_vars

\* The poll command run again and again, and the reviewers.
NextPollCmd ==
  \/ PollGerritCmd(1)
  \/ CmdPollInsert(1)
  \/ CmdPollDelete(1)
  \/ Reviewers

SpecPollCmd == Init /\ [][NextPollCmd]_vars

\* ------------------------------------------- functions called on their own
\* The changes of the answer to the one GET of get_merge_requests
\* (start=offset, n=limit) when n changes match the query: the changes are
\* numbered 1..n in the order of the review server.
query_page(n, offset, limit) ==
  {i \in 1..n : offset < i /\ i <= offset + limit}

\* GerritRest.get_merge_requests(): of the changes of the page, those whose
\* resolved Merge-Queue score is 1 (all but the change number skipped).
get_merge_requests_of(n, skipped) ==
  {i \in query_page(n, 0, PageLimit) : i # skipped}

\* poll_gerrit calls gerrit.get_merge_requests() while n changes match the
\* query, of which the change number skipped (if not 0) has a resolved
\* score other than 1.
GetMergeRequestsCall ==
  /\ \E n \in 0..MaxUpstream, skipped \in 0..MaxUpstream :
       /\ skipped <= n
       /\ call' = [fn |-> "get_merge_requests",
                   arg |-> [n |-> n, skipped |-> skipped],
                   ret |-> get_merge_requests_of(n, skipped)]
  /\ UNCHANGED << pidfile, workspace, store, gerrit, silent, pc, pid_ret, locals,
                  web_view, sentinel, run, requests >>

SpecPaging == Init /\ [][GetMergeRequestsCall]_vars

\* A Priority tag of a commit message, or none (NoTag); queue times;
\* projects, numbered in the order of their names.
NoTag == -1
PriorityTags == {NoTag, 50}
QueueTimes == {1, 2}
Projects == {1, 2}

\* poll_gerrit, line 66: the priority of the row of a change.
row_priority(tag) == IF tag = NoTag THEN DefaultPriority ELSE tag

\* The ChangeInfo rows of one poll that a snapshot can hold: change_id is
\* the number of the change, in the order of the change ids.
SnapshotRows ==
  [change_id : 1..MaxSnapshot, priority : {row_priority(t) : t \in PriorityTags},
   queue_time : QueueTimes, project : Projects]

\* order_by(poll_id.desc(), priority.asc(), queue_time.asc()) on rows of one
\* poll: a comes before b.
order_by_before(a, b) ==
  \/ a.priority < b.priority
  \/ a.priority = b.priority /\ a.queue_time < b.queue_time

\* ChangeInfo.key: (priority, queue_time, project, change_id) of a is less
\* than that of b.
key_before(a, b) ==
  \/ a.priority < b.priority
  \/ /\ a.priority = b.priority
     /\ \/ a.queue_time < b.queue_time
        \/ /\ a.queue_time = b.queue_time
           /\ \/ a.project < b.project
              \/ a.project = b.project /\ a.change_id < b.change_id

\* The lists the query of functions.get_queue can give for the rows: every
\* row once, no row before one that order_by puts before it.  The database
\* is free in the order of the rows that order_by does not tell apart.
query_results(rows) ==
  {q \in [1..Cardinality(rows) -> rows] :
     /\ \A i, j \in DOMAIN q : i # j => q[i] # q[j]
     /\ \A i, j \in DOMAIN q : i < j => ~order_by_before(q[j], q[i])}

\* functions.get_queue is called on a snapshot: the rows of some changes,
\* one row per change.
GetQueueCall ==
  /\ call = NoCall
  /\ \E ids \in SUBSET (1..MaxSnapshot) :
       \E row \in [ids -> SnapshotRows] :
         /\ \A c \in ids : row[c].change_id = c
         /\ \E q \in query_results({row[c] : c \in ids}) :
              call' = [fn |-> "get_queue", arg |-> {row[c] : c \in ids}, ret |-> q]
  /\ UNCHANGED << pidfile, workspace, store, gerrit, silent, pc, pid_ret, locals,
                  web_view, sentinel, run, requests >>

SpecQueueOrder == Init /\ [][GetQueueCall]_vars

\* ----------------------------------------------------- the score fold
\* The date of a label entry as the review server writes it: a second and
\* nine digits of fraction ("yyyy-mm-dd hh:mm:ss.fffffffff").
NoFraction == << 0, 0, 0, 0, 0, 0, 0, 0, 0 >>
HalfSecond == << 5, 0, 0, 0, 0, 0, 0, 0, 0 >>
Dates == [sec : 1..MaxSec, frac : {NoFraction, HalfSecond}]
NoDate == [sec |-> 0]
NoValue == 2

\* rstrip('0') on the digits of the fraction.
RECURSIVE rstrip_zeros(_)
rstrip_zeros(digits) ==
  IF digits # << >> /\ digits[Len(digits)] = 0
  THEN rstrip_zeros(SubSeq(digits, 1, Len(digits) - 1))
  ELSE digits

\* What %f reads from up to six digits: microseconds, the digits padded
\* with zeros on the right.
RECURSIVE microseconds(_, _)
microseconds(digits, width) ==
  IF width = 0 THEN 0
  ELSE (IF digits = << >> THEN 0 ELSE digits[1] * 10^(width - 1))
       + microseconds(IF digits = << >> THEN << >> ELSE Tail(digits),
                      width - 1)

\* sort_merge_queue_labels, lines 101-109: the time parsed from the date,
\* in microseconds; -1 when strptime raises a ValueError (more than six
\* digits left).
label_time(date) ==
  LET stripped == rstrip_zeros(date.frac)
      digits == IF stripped = << >> THEN << 0 >> ELSE stripped
  IN IF Len(digits) > 6 THEN -1
     ELSE date.sec * 1000000 + microseconds(digits, 6)

\* datetime.datetime.utcnow() at the call: later than every label.
utcnow == (MaxSec + 1) * 1000000

\* The order of sorted() on (time, value) tuples.
tuple_before(a, b) == a[1] < b[1] \/ (a[1] = b[1] /\ a[2] < b[2])

RECURSIVE insert_sorted(_, _)
insert_sorted(sorted, t) ==
  IF sorted = << >> THEN << t >>
  ELSE IF tuple_before(t, sorted[1]) THEN << t >> \o sorted
  ELSE << sorted[1] >> \o insert_sorted(Tail(sorted), t)

\* sort_merge_queue_labels: the (time, value) tuples of the entries that
\* have a date and a value, sorted.
RECURSIVE sort_merge_queue_labels(_)
sort_merge_queue_labels(label_entries) ==
  IF label_entries = << >> THEN << >>
  ELSE LET e == label_entries[Len(label_entries)]
           front == sort_merge_queue_labels(
                      SubSeq(label_entries, 1, Len(label_entries) - 1))
       IN IF e.date = NoDate \/ e.value = NoValue THEN front
          ELSE insert_sorted(front, << label_time(e.date), e.value >>)

\* get_resolved_merge_queue_score: the loop over the sorted tuples, from
\* the pair (resolved_time, resolved_score) reached so far.
RECURSIVE resolve_from(_, _)
resolve_from(sorted_labels, resolved) ==
  IF sorted_labels = << >> THEN resolved
  ELSE LET mq == sorted_labels[1]
       IN resolve_from(Tail(sorted_labels),
            IF mq[2] = -1 THEN [time |-> mq[1], score |-> -1]
            ELSE IF mq[2] = 1 /\ resolved.score # 1
            THEN [time |-> mq[1], score |-> 1]
            ELSE resolved)

get_resolved_merge_queue_score(sorted_labels) ==
  resolve_from(sorted_labels, [time |-> utcnow, score |-> -1])

\* GerritRest.get_merge_requests, lines 290-303: the fold of the label
\* entries of a change, and whether the change goes into the list.
score_fold(label_entries) ==
  get_resolved_merge_queue_score(sort_merge_queue_labels(label_entries))

\* The label entries of a change: one per reviewer, with or without date
\* and value.
LabelEntries == [date : Dates \cup {NoDate}, value : {-1, 0, 1, NoValue}]

\* The score fold is called on a list of label entries.
ScoreFoldCall ==
  /\ call = NoCall
  /\ \E n \in 0..MaxEntries :
       \E entries \in [1..n -> LabelEntries] :
         call' = [fn |-> "score_fold", arg |-> entries,
                  ret |-> score_fold(entries),
                  listed |-> score_fold(entries).score = 1]
  /\ UNCHANGED << pidfile, workspace, store, gerrit, silent, pc, pid_ret, locals,
                  web_view, sentinel, run, requests >>

SpecScoreFold == Init /\ [][ScoreFoldCall]_vars

\* --------------------------------------------------- the scheduler
\* The queues functions.get_queue can give: changes, none twice.
QueuesUpTo(n) ==
  UNION {{q \in [1..k -> Changes] : \A i, j \in 1..k : i # j => q[i] # q[j]} :
           k \in 0..n}

\* MergeDaemon.run, lines 858-866: get_requests_from_single_queue is called
\* on the queue read from the store; starts tells whether the pass goes on
\* to a verification.
GetRequestsCall ==
  /\ call = NoCall
  /\ \E q \in QueuesUpTo(MaxRows) :
       LET found == get_requests_from_single_queue(q)
       IN call' = [fn |-> "get_requests_from_single_queue", arg |-> q,
                   ret |-> found,
                   starts |-> ~(found[1] = 0 \/ found[2] = << >>)]
  /\ UNCHANGED << pidfile, workspace, store, gerrit, silent, pc, pid_ret, locals,
                  web_view, sentinel, run, requests >>

SpecScheduler == Init /\ [][GetRequestsCall]_vars

\* MergeDaemon.run, lines 868-885, on a request_queue, the dirty_changes
\* of the queue and its coalesce_count: whether coalesce_queue is built,
\* the queue built, and whether a coalesced verification is run.
CoalesceCall ==
  /\ call = NoCall
  /\ \E rq \in QueuesUpTo(MaxSnapshot), count \in 0..MaxSnapshot :
       \E dirty \in SUBSET Range(rq) :
         LET built == count > 0 /\ Len(rq) > 1
             cq == IF built THEN coalesce_queue_of(rq, dirty, count)
                   ELSE << >>
         IN call' = [fn |-> "coalesce",
                     arg |-> [rq |-> rq, dirty |-> dirty, count |-> count],
                     built |-> built, ret |-> cq,
                     coalesced |-> Len(cq) > 1]
  /\ UNCHANGED << pidfile, workspace, store, gerrit, silent, pc, pid_ret, locals,
                  web_view, sentinel, run, requests >>

SpecCoalesce == Init /\ [][CoalesceCall]_vars

\* create_sql_records, lines 371-384: the MergeChange rows the second
\* commit writes for the queue.  A change without Feature-Branch tag raises
\* at line 374, before that commit: the rows added to the session so far
\* are never written.
merge_change_rows(q) == IF has_feature_branches(q) THEN q ELSE << >>

\* MergeDaemon.run, lines 858-904, and create_sql_records: the queue read
\* from the store is scheduled and the records of the verification are
\* created, for the coalesced verification or the serial one (the only one
\* of the pass, or the one that follows a failed coalesced verification).
CreateSqlRecordsCall ==
  /\ call = NoCall
  /\ \E q \in QueuesUpTo(MaxSnapshot), fallback \in BOOLEAN :
       \E dirty \in SUBSET Range(q) :
         LET found == get_requests_from_single_queue(q)
             spec == QueueSpec[found[1]]
             rq == found[2]
             cq == IF spec.coalesce_count > 0 /\ Len(rq) > 1
                   THEN coalesce_queue_of(rq, dirty, spec.coalesce_count)
                   ELSE << >>
             coalesced == Len(cq) > 1 /\ ~fallback
             change_q == IF coalesced THEN cq ELSE SubSeq(rq, 1, 1)
         IN /\ found[1] # 0
            /\ rq # << >>
            /\ fallback => Len(cq) > 1
            /\ call' = [fn |-> "create_sql_records",
                        arg |-> [global_queue |-> q, dirty |-> dirty,
                                 queue_spec |-> spec.name,
                                 change_queue |-> change_q,
                                 coalesced |-> coalesced],
                        merge |-> [project |-> spec.project,
                                   branch |-> ChangeInfo[change_q[1]].branch,
                                   status |-> IN_PROGRESS],
                        merge_changes |-> merge_change_rows(change_q),
                        raised |-> ~has_feature_branches(change_q)]
  /\ UNCHANGED << pidfile, workspace, store, gerrit, silent, pc, pid_ret,
                  locals, web_view, sentinel, run, requests >>

SpecCreateRecords == Init /\ [][CreateSqlRecordsCall]_vars

\* ------------------------------------------------ commit message metadata
\* A line of a commit message is a sequence of tokens: a word at its start
\* and characters after it.
KeyWords == {"Closes", "Resolves", "Priority", "Other"}
Chars == {":", " ", ",", "7"}

RECURSIVE TextsOf(_)
TextsOf(n) ==
  IF n = 0 THEN {<< >>}
  ELSE TextsOf(n - 1) \cup
       {Append(t, c) : t \in {u \in TextsOf(n - 1) : Len(u) = n - 1},
                       c \in Chars}

\* The lines of the messages: a word, then a colon and text, or no colon
\* right after the word.
MessageLines ==
  {<< k >> \o t : k \in KeyWords,
                  t \in {u \in TextsOf(MaxText) : u # << >> /\ u[1] = ":"}}
  \cup {<< k >> \o t : k \in KeyWords,
                       t \in {<< >>, << " " >>, << " ", ":" >>,
                              << " ", ":", "7" >>}}

\* str.strip() on a sequence of characters
RECURSIVE lstrip(_)
lstrip(t) == IF t # << >> /\ t[1] = " " THEN lstrip(Tail(t)) ELSE t
RECURSIVE rstrip(_)
rstrip(t) ==
  IF t # << >> /\ t[Len(t)] = " " THEN rstrip(SubSeq(t, 1, Len(t) - 1))
  ELSE t
strip(t) == rstrip(lstrip(t))

\* The place of the first token c in t, 0 when there is none.
first_index(t, c) ==
  IF \E i \in DOMAIN t : t[i] = c
  THEN CHOOSE i \in DOMAIN t : t[i] = c /\ \A j \in 1..(i - 1) : t[j] # c
  ELSE 0

\* line.split(':', 1)
split_colon(line) ==
  LET i == first_index(line, ":")
  IN IF i = 0 THEN << line >>
     ELSE << SubSeq(line, 1, i - 1), SubSeq(line, i + 1, Len(line)) >>

\* value.split(',')
RECURSIVE split_comma(_)
split_comma(t) ==
  LET i == first_index(t, ",")
  IN IF i = 0 THEN << t >>
     ELSE << SubSeq(t, 1, i - 1) >> \o split_comma(SubSeq(t, i + 1, Len(t)))

\* [item.strip() for item in value.strip().split(',')]
issues_of(value) ==
  LET items == split_comma(strip(value))
  IN [i \in DOMAIN items |-> strip(items[i])]

\* int(value): the characters between the spaces are digits, or a
\* ValueError is raised.
is_int(value) ==
  strip(value) # << >> /\ \A i \in DOMAIN strip(value) : strip(value)[i] = "7"
RECURSIVE digits_value(_)
digits_value(t) ==
  IF t = << >> THEN 0
  ELSE 10 * digits_value(SubSeq(t, 1, Len(t) - 1)) + 7
int_of(value) == digits_value(strip(value))

\* dict assignment result[key] = v
dict_set(result, key, v) ==
  [k \in DOMAIN result \cup {key} |-> IF k = key THEN v ELSE result[k]]

\* A faulty scan: a later Closes or Resolves line replaces the items of
\* the earlier ones.
meta_after_line_overwrite(result, line) ==
  LET parts == split_colon(line)
  IN IF Len(parts) # 2 THEN result
     ELSE IF parts[1] \in {<< "Closes" >>, << "Resolves" >>}
     THEN dict_set(result, parts[1], issues_of(parts[2]))
     ELSE IF parts[1] = << "Priority" >>
     THEN (IF is_int(parts[2])
           THEN dict_set(result, parts[1], int_of(parts[2])) ELSE result)
     ELSE dict_set(result, parts[1], strip(parts[2]))

\* get_message_meta, lines 369-381: the body of the loop for one line.
meta_after_line(result, line) ==
  LET parts == split_colon(line)
  IN IF Len(parts) # 2 THEN result
     ELSE IF parts[1] \in {<< "Closes" >>, << "Resolves" >>}
     THEN dict_set(result, parts[1], result[parts[1]] \o issues_of(parts[2]))
     ELSE IF parts[1] = << "Priority" >>
     THEN (IF is_int(parts[2])
           THEN dict_set(result, parts[1], int_of(parts[2])) ELSE result)
     ELSE dict_set(result, parts[1], strip(parts[2]))

\* get_message_meta, lines 368-383: the loop over the lines.
RECURSIVE meta_from(_, _)
meta_from(result, lines) ==
  IF lines = << >> THEN result
  ELSE meta_from(meta_after_line(result, lines[1]), Tail(lines))

get_message_meta(lines) ==
  meta_from([k \in {<< "Closes" >>, << "Resolves" >>} |-> << >>], lines)

\* get_message_meta is called on the lines of a commit message.
GetMessageMetaCall ==
  /\ call = NoCall
  /\ \E n \in 0..MaxLines :
       \E lines \in [1..n -> MessageLines] :
         call' = [fn |-> "get_message_meta", arg |-> lines,
                  ret |-> get_message_meta(lines)]
  /\ UNCHANGED << pidfile, workspace, store, gerrit, silent, pc, pid_ret, locals,
                  web_view, sentinel, run, requests >>

SpecMessageMeta == Init /\ [][GetMessageMetaCall]_vars

\* ------------------------------------------------ cancel_merge in detail
\* Webfront.cancel_merge, lines 258-274: thread w parses the rid of the
\* request and counts the Cancellation rows of the rid; with a row there it
\* answers SUCCESS with the note 'Already Canceled in DB'.
CancelMergeQuery(w, rid) ==
  /\ requests[w] = Idle
  /\ requests' = [requests EXCEPT ![w] =
       IF rid \in cancellations
       THEN [at |-> "done", rid |-> rid, response |-> "Already Canceled in DB"]
       ELSE [at |-> "insert", rid |-> rid]]
  /\ UNCHANGED << pidfile, workspace, store, gerrit, silent, pc, pid_ret, locals,
                  web_view, sentinel, call, run >>

\* Webfront.cancel_merge, lines 276-281: thread w adds the row and commits.
\* rid is the primary key of the table (orm.py:41): the commit of a second
\* row for the rid raises an IntegrityError and the request ends with the
\* error page of the server.
CancelMergeCommit(w) ==
  /\ requests[w].at = "insert"
  /\ IF requests[w].rid \in cancellations
     THEN /\ requests' = [requests EXCEPT ![w] =
               [at |-> "done", rid |-> @.rid, response |-> "IntegrityError"]]
          /\ UNCHANGED cancellations
     ELSE /\ requests' = [requests EXCEPT ![w] =
               [at |-> "done", rid |-> @.rid, response |-> "SUCCESS"]]
          /\ cancellations' = cancellations \cup {requests[w].rid}
  /\ UNCHANGED << pidfile, workspace, change_info, merge_history, gerrit, silent, pc,
                  pid_ret, locals, web_view, sentinel, call, run >>

\* The answer of thread w has been sent; the thread takes the next request.
CancelMergeReturn(w) ==
  /\ requests[w].at = "done"
  /\ requests' = [requests EXCEPT ![w] = Idle]
  /\ UNCHANGED << pidfile, workspace, store, gerrit, silent, pc, pid_ret, locals,
                  web_view, sentinel, call, run >>

\* The web front end serving cancel_merge requests on its threads.
NextCancelRequests ==
  \/ \E w \in Workers, rid \in 1..MaxRid : CancelMergeQuery(w, rid)
  \/ \E w \in Workers : CancelMergeCommit(w)
  \/ \E w \in Workers : CancelMergeReturn(w)

SpecCancelRequests == Init /\ [][NextCancelRequests]_vars

\* ---------------------------------------------------- run_steps in detail
\* Seconds since a poll, counted up to "more than period".
Aged(age, period) == IF age > period THEN age ELSE age + 1

\* run_steps, lines 423-435: the review server is polled during this step.
should_poll_gerrit(submit_with_rest, step_idx) ==
  submit_with_rest \/ step_idx < BuildSteps - 1

\* run_steps is called for a merge: lines 397-415 for step 0.  A
\* Cancellation row of the merge may be there already, and a change of the
\* queue may have lost its Merge-Queue +1 already.  Popen raises an OSError
\* or the child runs.
CallRunSteps ==
  /\ run = NoRun
  /\ \E with_rest, row, lost, popen_raises \in BOOLEAN :
       run' = [at |-> IF popen_raises THEN "done" ELSE "loop",
               step_idx |-> 0,
               submit_with_rest |-> with_rest,
               gerrit_age |-> GerritPollPeriod + 1,
               db_age |-> DbPollPeriod + 1,
               cancel_row |-> row,
               lost |-> lost,
               cancel_in_step |-> FALSE,
               lost_in_step |-> "no",
               lost_age |-> 0,
               exits |-> << >>,
               gerrit_poll_failures |-> 0,
               ret |-> IF popen_raises THEN Raised ELSE NoResult]
  /\ UNCHANGED << pidfile, workspace, store, gerrit, silent, pc, pid_ret, locals,
                  web_view, sentinel, call, requests >>

\* A faulty handler: a poll of the review server that fails ends the step
\* with an error.
after_poll_failure_raises(r) ==
  [r EXCEPT !.gerrit_poll_failures = @ + 1, !.at = "done", !.ret = Raised]

\* run_steps, lines 447-461: the locals after a poll of the review server
\* has raised a RequestException or a ValueError; continue goes to the
\* next turn of the loop.
after_poll_failure(r) ==
  [r EXCEPT !.gerrit_age = 0, !.gerrit_poll_failures = @ + 1]

\* run_steps, lines 437-482: one turn of the while loop, the child still
\* running.  A poll of the review server that fails goes to the next turn
\* at once; a poll that finds a change without its score, or a Cancellation
\* row of the merge, kills the child and returns CANCELED; else the loop
\* sleeps one second.
LoopTurn ==
  /\ run # NoRun
  /\ run.at = "loop"
  /\ LET polls == /\ should_poll_gerrit(run.submit_with_rest, run.step_idx)
                  /\ run.gerrit_age > GerritPollPeriod
         reads == run.db_age > DbPollPeriod
         g == IF polls THEN 0 ELSE run.gerrit_age
         b == IF reads THEN 0 ELSE run.db_age
     IN \E poll_fails \in BOOLEAN :
          /\ poll_fails => polls /\ run.gerrit_poll_failures < MaxPollFailures
          /\ run' =
               IF poll_fails
               THEN after_poll_failure(run)
               ELSE IF (polls /\ run.lost) \/ (reads /\ run.cancel_row)
               THEN [run EXCEPT !.at = "done", !.ret = Returned(CANCELED)]
               ELSE [run EXCEPT !.gerrit_age = Aged(g, GerritPollPeriod),
                                !.db_age = Aged(b, DbPollPeriod),
                                !.lost_age = IF run.lost_in_step = "no" THEN 0
                                             ELSE Aged(@, GerritPollPeriod)]
  /\ UNCHANGED << pidfile, workspace, store, gerrit, silent, pc, pid_ret, locals,
                  web_view, sentinel, call, requests >>

\* A faulty end of a step: the exit code is not looked at.
after_exit_any_code(r, rc) ==
  IF r.step_idx = BuildSteps - 1
  THEN [r EXCEPT !.at = "done", !.ret = Returned(SUCCESS),
                 !.exits = Append(@, rc)]
  ELSE [r EXCEPT !.step_idx = @ + 1,
                 !.gerrit_age = GerritPollPeriod + 1,
                 !.db_age = DbPollPeriod + 1,
                 !.gerrit_poll_failures = 0,
                 !.exits = Append(@, rc)]

\* run_steps, lines 484-492, then lines 397-415 for the next step: the
\* locals after the child of the step has exited with code rc; exits keeps
\* the exit codes of the steps so far.
after_exit(r, rc) ==
  IF rc # 0
  THEN [r EXCEPT !.at = "done", !.ret = Raised, !.exits = Append(@, rc)]
  ELSE IF r.step_idx = BuildSteps - 1
  THEN [r EXCEPT !.at = "done", !.ret = Returned(SUCCESS),
                 !.exits = Append(@, rc)]
  ELSE [r EXCEPT !.step_idx = @ + 1,
                 !.gerrit_age = GerritPollPeriod + 1,
                 !.db_age = DbPollPeriod + 1,
                 !.gerrit_poll_failures = 0,
                 !.exits = Append(@, rc)]

\* run_steps, lines 484-492 and 397-415 of the next step: the child has
\* exited with code rc when the while loop tests it.
StepEnds(rc) ==
  /\ run # NoRun
  /\ run.at = "loop"
  /\ run' = after_exit(run, rc)
  /\ UNCHANGED << pidfile, workspace, store, gerrit, silent, pc, pid_ret, locals,
                  web_view, sentinel, call, requests >>

\* webfront.cancel_merge for the merge while a build step of it runs.
CancelDuringStep ==
  /\ run # NoRun
  /\ run.at = "loop"
  /\ ~run.cancel_row
  /\ run' = [run EXCEPT !.cancel_row = TRUE, !.cancel_in_step = TRUE]
  /\ UNCHANGED << pidfile, workspace, store, gerrit, silent, pc, pid_ret, locals,
                  web_view, sentinel, call, requests >>

\* A reviewer takes the Merge-Queue +1 of a change of the queue back while
\* a build step runs.
RemoveScoreDuringStep ==
  /\ run # NoRun
  /\ run.at = "loop"
  /\ ~run.lost
  /\ run' = [run EXCEPT
               !.lost = TRUE,
               !.lost_age = 0,
               !.lost_in_step =
                  IF should_poll_gerrit(run.submit_with_rest, run.step_idx)
                  THEN "polled" ELSE "unpolled"]
  /\ UNCHANGED << pidfile, workspace, store, gerrit, silent, pc, pid_ret, locals,
                  web_view, sentinel, call, requests >>

NextSteps ==
  \/ CallRunSteps
  \/ LoopTurn
  \/ \E rc \in {0, 1} : StepEnds(rc)
  \/ CancelDuringStep
  \/ RemoveScoreDuringStep

SpecSteps == Init /\ [][NextSteps]_vars

\* ---------------------------------------------------- kill_step in detail
\* kill_step: time.sleep(2), and the seconds after start_time at which
\* both loops break.
SleepSeconds == 2
KillTimeout == 10
\* A sleep of kill_step lasts up to MaxLag seconds longer than asked.
MaxLag == 1

\* kill_step is called on the child of a step, which is running or has
\* exited already: line 274 takes start_time.
KillStepCall ==
  /\ call = NoCall
  /\ \E alive \in BOOLEAN :
       call' = [fn |-> "kill_step", at |-> "term", alive |-> alive,
                elapsed |-> 0, terms |-> 0, kills |-> 0, kill_wait |-> 0]
  /\ UNCHANGED << pidfile, workspace, store, gerrit, silent, pc, pid_ret, locals,
                  web_view, sentinel, run, requests >>

\* kill_step, lines 278-282: one turn of the first loop.  With the child
\* gone the loop ends; else SIGTERM is sent, the function sleeps, during
\* which the child exits or not, and the loop breaks when more than
\* KillTimeout seconds have passed since start_time.
KillStepTerm ==
  /\ call.fn = "kill_step"
  /\ call.at = "term"
  /\ IF ~call.alive
     THEN call' = [call EXCEPT !.at = "kill"]
     ELSE \E dt \in SleepSeconds..(SleepSeconds + MaxLag), exits \in BOOLEAN :
            call' = [call EXCEPT
                       !.terms = @ + 1,
                       !.elapsed = @ + dt,
                       !.alive = ~exits,
                       !.at = IF call.elapsed + dt > KillTimeout
                              THEN "kill" ELSE "term"]
  /\ UNCHANGED << pidfile, workspace, store, gerrit, silent, pc, pid_ret, locals,
                  web_view, sentinel, run, requests >>

\* kill_step, lines 287-294: one turn of the second loop, which tests the
\* seconds since the same start_time; kill_wait counts the seconds since
\* the first SIGKILL.  When the loop ends kill_step returns.
KillStepKill ==
  /\ call.fn = "kill_step"
  /\ call.at = "kill"
  /\ IF ~call.alive
     THEN call' = [call EXCEPT !.at = "done"]
     ELSE \E dt \in SleepSeconds..(SleepSeconds + MaxLag), exits \in BOOLEAN :
            call' = [call EXCEPT
                       !.kills = @ + 1,
                       !.elapsed = @ + dt,
                       !.kill_wait = @ + dt,
                       !.alive = ~exits,
                       !.at = IF call.elapsed + dt > KillTimeout
                              THEN "done" ELSE "kill"]
  /\ UNCHANGED << pidfile, workspace, store, gerrit, silent, pc, pid_ret, locals,
                  web_view, sentinel, run, requests >>

NextKillStep ==
  \/ KillStepCall
  \/ KillStepTerm
  \/ KillStepKill

SpecKillStep == Init /\ [][NextKillStep]_vars

\* ------------------------------------------------- the paging arguments
\* A value of the query string is a sequence of characters of at most
\* MaxLimitLen (limit) or MaxOffsetLen (offset) characters, or is absent.
MaxLimitLen == 4
MaxOffsetLen == 2
\* The query of the table is made with at most MaxTableRows rows matching.
MaxTableRows == 600
TableSizes == {0, 1, 2, MaxTableRows}
\* extract_common_args: the cap and the default of limit
LimitCap == 500
DefaultLimit == 25

ArgChars == {"-", "0", "1", "5", "x"}
Absent == << "absent" >>
RECURSIVE ArgsUpTo(_)
ArgsUpTo(n) ==
  IF n = 0 THEN {<< >>}
  ELSE ArgsUpTo(n - 1) \cup
       {Append(t, c) : t \in {u \in ArgsUpTo(n - 1) : Len(u) = n - 1},
                       c \in ArgChars}

\* int(s) on a value of the query string: digits after an optional minus
\* sign, else a ValueError.
digit_of(c) == CASE c = "0" -> 0 [] c = "1" -> 1 [] c = "5" -> 5
all_digits(t) == t # << >> /\ \A i \in DOMAIN t : t[i] \in {"0", "1", "5"}
int_raises(t) ==
  ~(all_digits(t) \/ (t # << >> /\ t[1] = "-" /\ all_digits(Tail(t))))
RECURSIVE digits_to_int(_)
digits_to_int(t) ==
  IF t = << >> THEN 0
  ELSE 10 * digits_to_int(SubSeq(t, 1, Len(t) - 1)) + digit_of(t[Len(t)])
int(t) ==
  IF t[1] = "-" THEN 0 - digits_to_int(Tail(t)) ELSE digits_to_int(t)

\* extract_common_args, lines 66-74: offset and limit from the values of
\* the query string.
extract_offset(v) ==
  IF v = Absent \/ int_raises(v) THEN 0
  ELSE IF int(v) > 0 THEN int(v) ELSE 0
extract_limit(v) ==
  IF v = Absent \/ int_raises(v) THEN DefaultLimit
  ELSE IF int(v) < LimitCap THEN int(v) ELSE LimitCap

\* functions.get_queue, lines 109-117, and Webfront.get_history, lines
\* 149-156: the number of rows the query gives when n rows match the
\* filters; offset and limit are applied only when they are above 0.
rows_returned(n, offset, limit) ==
  LET after == IF offset > 0
               THEN (IF n > offset THEN n - offset ELSE 0) ELSE n
  IN IF limit > 0 /\ limit < after THEN limit ELSE after

\* Webfront.get_queue or Webfront.get_history is requested with the values
\* v_offset and v_limit while n rows match the filters.
ExtractCommonArgsCall ==
  /\ call = NoCall
  /\ \E v_offset \in ArgsUpTo(MaxOffsetLen) \cup {Absent},
        v_limit \in ArgsUpTo(MaxLimitLen) \cup {Absent},
        n \in TableSizes :
       call' = [fn |-> "extract_common_args",
                arg |-> [offset |-> v_offset, limit |-> v_limit, rows |-> n],
                offset |-> extract_offset(v_offset),
                limit |-> extract_limit(v_limit),
                ret |-> rows_returned(n, extract_offset(v_offset),
                                      extract_limit(v_limit))]
  /\ UNCHANGED << pidfile, workspace, store, gerrit, silent, pc, pid_ret,
                  locals, web_view, sentinel, run, requests >>

SpecPagingArgs == Init /\ [][ExtractCommonArgsCall]_vars

\* ------------------------------------------------------------ properties
\* The verification of process d ends in this step with status st: the
\* MergeStatus row of its merge leaves IN_PROGRESS for st while the process
\* is in coalesce_merge.
VerificationEnds(d, st) ==
  /\ pc[d] = "submit"
  /\ merge[d] # NoRid
  /\ merge_history[merge[d]].status = IN_PROGRESS
  /\ merge_history'[merge[d]].status = st
  /\ pc'[d] \in {"create", "loop"}

\* C1: a submit (through REST or through the submit command) is issued by a
\* process only in a verification whose run_steps returned SUCCESS and whose
\* status is SUCCESS: never after a failed staging, a failed step or a
\* cancellation.
C1_SubmitOnlyAfterSuccess ==
  [][\A d \in Pids :
       SubmitWithRest(d) \/ SubmitWithCmd(d) =>
         /\ step_result[d] = Returned(SUCCESS)
         /\ status[d] = SUCCESS]_vars

\* A coalesced verification succeeded and the first of its two changes has
\* been submitted, after an earlier verification ended canceled.
C1_Witness ==
  \E d \in Pids :
    /\ pc[d] = "submit"
    /\ step_result[d] = Returned(SUCCESS)
    /\ Len(change_queue[d]) = 2
    /\ submit_idx[d] = 2
    /\ change_queue[d][1] \in merged
    /\ \E r \in DOMAIN merge_history : merge_history[r].status = CANCELED

\* C2: for each (project, branch) at most one MergeStatus row is IN_PROGRESS.
C2_OneInProgress ==
  \A r1, r2 \in DOMAIN merge_history :
    /\ merge_history[r1].status = IN_PROGRESS
    /\ merge_history[r2].status = IN_PROGRESS
    /\ merge_history[r1].project = merge_history[r2].project
    /\ merge_history[r1].branch = merge_history[r2].branch
    => r1 = r2

\* C3: a process whose handle_pid_file found the pid of a live other process
\* in the pid file does not start: it never enters the main loop.
C3_RefusesToStart ==
  \A d \in Pids : pid_ret[d] = 1 => pc[d] \in {"off", "mark"}

\* C4: mark_old_changes_as_failed leaves no row IN_PROGRESS, turns exactly
\* the IN_PROGRESS rows into CANCELED rows and leaves the others as they
\* were; a started process leaves its start only through it, so it runs
\* before the first poll and the first verification.
C4_NoStaleInProgress ==
  [][\A d \in Pids :
       /\ MarkOldChangesAsFailed(d) =>
            /\ DOMAIN merge_history' = DOMAIN merge_history
            /\ \A r \in DOMAIN merge_history :
                 /\ merge_history'[r].status # IN_PROGRESS
                 /\ merge_history'[r] =
                      IF merge_history[r].status = IN_PROGRESS
                      THEN [merge_history[r] EXCEPT !.status = CANCELED]
                      ELSE merge_history[r]
       /\ pc[d] = "off" /\ pc'[d] # "off" => pc'[d] = "mark"
       /\ pc[d] = "mark" /\ pc'[d] # "mark" =>
            /\ pc'[d] = "loop"
            /\ \A r \in DOMAIN merge_history' :
                 merge_history'[r].status # IN_PROGRESS]_vars

\* The process is at the top of its loop after a restart; the one row of the
\* history is CANCELED although its change was submitted: the process that
\* created it ended between the submit and the commit of the status, and
\* the row was IN_PROGRESS when mark_old_changes_as_failed ran.
C4_Witness ==
  /\ pc[1] = "loop"
  /\ uploaded = {"c3"}
  /\ merged = {"c3"}
  /\ Len(merge_history) = 1
  /\ merge_history[1].status = CANCELED

\* C5: when a coalesced verification of more than one change ends with a
\* status other than SUCCESS, all its changes are in dirty_changes of the
\* queue, and the process goes on to the serial verification of the first
\* of them alone.
C5_CoalesceFallback ==
  [][\A d \in Pids :
       /\ coalescing[d]
       /\ Len(change_queue[d]) > 1
       /\ \E st \in {TIMEOUT, CANCELED, STEP_FAILED} : VerificationEnds(d, st)
       => /\ Range(change_queue[d]) \subseteq dirty_changes'[d][queue_spec[d]]
          /\ pc'[d] = "create"
          /\ change_queue'[d] = << change_queue[d][1] >>
          /\ ~coalescing'[d]]_vars

\* The process is about to create the row of the serial verification of c1
\* after the coalesced verification of c1 and c2 failed.
C5_Witness ==
  \E d \in Pids :
    /\ pc[d] = "create"
    /\ ~coalescing[d]
    /\ coalesce_queue[d] = << "c1", "c2" >>
    /\ change_queue[d] = << "c1" >>
    /\ pass_rids[d] # {}
    /\ merge_history[Len(merge_history)].status = STEP_FAILED
    /\ dirty_changes[d]["master"] = {"c1", "c2"}

\* C6: when a verification, coalesced or serial, ends with status SUCCESS,
\* none of its changes is in dirty_changes.
C6_SuccessClearsDirty ==
  [][\A d \in Pids :
       VerificationEnds(d, SUCCESS) =>
         Range(change_queue[d]) \cap dirty_changes'[d][queue_spec[d]] = {}]_vars

\* c2 was in a coalesced verification that failed, and so dirty; its serial
\* verification, the third of the history, succeeded and it was submitted.
C6_Witness ==
  /\ pc[1] = "loop"
  /\ Len(merge_history) = 3
  /\ merge_history[1].status = STEP_FAILED
  /\ merge_history[2].status = STEP_FAILED
  /\ merge_history[3].status = SUCCESS
  /\ "c2" \in merged
  /\ "c2" \notin dirty_changes[1]["master"]

\* C7: a process creates at most one MergeStatus row in a pass of its loop,
\* that is between two of its polls.
C7_OneVerificationPerPass ==
  \A d \in Pids : Cardinality(pass_rids[d]) <= 1

\* C8: what a reader of the queue gets carries one poll_id.
C8_ReaderSeesOnePoll ==
  \A i, j \in DOMAIN web_view : web_view[i].poll_id = web_view[j].poll_id

\* C9: when the poll pass of a process ends, the rows of ChangeInfo are the
\* rows of the list it polled, each once and with its poll_id.
C9_QueueFreshness ==
  [][\A d \in Pids :
       PollDelete(d) \/ CmdPollDelete(d) =>
         change_info' = NewRows(poll_list[d], poll_id[d])]_vars

\* C10: a poll pass whose query of the review server failed leaves the rows
\* of ChangeInfo as they were before the pass.
C10_FailedPollKeepsRows ==
  [][\A d \in Pids :
       PollDelete(d) /\ poll_failed[d] => change_info' = change_info]_vars

\* C11: the list of a poll holds every change that matches the query and
\* has resolved score 1, however many there are.
C11_AllReadyChangesPolled ==
  call.fn = "get_merge_requests" =>
    \A i \in 1..call.arg.n : i # call.arg.skipped => i \in call.ret

\* C12: the rows of a snapshot come out of get_queue in ascending order of
\* (priority, queue_time, project, change_id), rows that tie on (priority,
\* queue_time) included.
C12_QueueOrderIsKeyOrder ==
  call.fn = "get_queue" =>
    \A i, j \in DOMAIN call.ret :
      i < j => key_before(call.ret[i], call.ret[j])

\* C13: when a Cancellation row of a merge is inserted while a build step
\* of the merge runs, the child is killed and run_steps returns CANCELED:
\* it does not return SUCCESS, after which the changes would be submitted.
C13_CancelDuringStepCancels ==
  (run # NoRun /\ run.at = "done" /\ run.cancel_in_step) =>
    run.ret = Returned(CANCELED)

\* C14: a change that loses its Merge-Queue +1 during a step in which the
\* review server is polled is found at a poll at most 30 seconds later and
\* run_steps returns CANCELED; a loss during the last step of a queue
\* without submit_with_rest cancels nothing.
C14_ScoreRemovalCancels ==
  /\ (run # NoRun /\ run.at = "loop" /\ run.lost_in_step = "polled") =>
       run.lost_age <= GerritPollPeriod
  /\ (run # NoRun /\ run.at = "done" /\ run.lost_in_step = "polled") =>
       run.ret = Returned(CANCELED)
  /\ (run # NoRun /\ run.at = "done" /\ run.lost_in_step = "unpolled"
        /\ ~run.cancel_row) =>
       run.ret # Returned(CANCELED)

\* C15: with submit_with_rest, after a successful verification, the changes
\* of change_queue are submitted in the order of the queue, each at most
\* once, and none after the first response that is not SUBMITTED: the
\* change the review server merges is the one the loop is at, every change
\* before it in the queue has been merged, and the loop moves on by one.
C15_SubmitInQueueOrder ==
  [][\A k \in 1..Len(change_queue[1]) :
       (/\ pc[1] = "submit"
        /\ change_queue[1][k] \notin merged
        /\ change_queue[1][k] \in merged'
        /\ QueueSpec[SpecIndex(queue_spec[1])].submit_with_rest)
       => /\ status[1] = SUCCESS
          /\ k = submit_idx[1]
          /\ submit_idx'[1] = k + 1
          /\ \A j \in 1..(k - 1) : change_queue[1][j] \in merged]_vars

\* Two changes were verified together; the first was submitted, the submit
\* of the second was refused and the loop is over.
C15_Witness ==
  /\ pc[1] = "submit"
  /\ Len(change_queue[1]) = 2
  /\ QueueSpec[SpecIndex(queue_spec[1])].submit_with_rest
  /\ submit_idx[1] = 3
  /\ change_queue[1][1] \in merged
  /\ change_queue[1][2] \notin merged

\* C16: with submit_with_rest, when the build steps succeeded and a submit
\* was answered with something other than SUBMITTED (a change of the queue
\* is left unmerged when the loop is over), the status recorded for the
\* merge is STEP_FAILED.
C16_RefusedSubmitFailsMerge ==
  [][\A st \in {TIMEOUT, CANCELED, STEP_FAILED, SUCCESS} :
       (/\ VerificationEnds(1, st)
        /\ QueueSpec[SpecIndex(queue_spec[1])].submit_with_rest
        /\ should_submit(status[1])
        /\ \E c \in Range(change_queue[1]) : c \notin merged)
       => st = STEP_FAILED]_vars

\* C17: when a change selected for a verification has no Feature-Branch
\* tag, the step that creates the MergeStatus row of the verification does
\* not end the daemon process: only the verification is aborted.
C17_MissingFeatureBranchAbortsOnlyMerge ==
  [][(/\ pc[1] = "create"
      /\ ~has_feature_branches(change_queue[1])
      /\ Len(merge_history') > Len(merge_history))
     => pc'[1] # "off"]_vars

\* C18: unless the daemon is silent, the result review of a verification
\* carries Merge-Queue +1 when its status is SUCCESS, -1 when it was serial
\* (one change) and did not succeed, 0 when it was coalesced (more than one
\* change) and did not succeed.
C18_ResultReviewLabel ==
  [][\A st \in {TIMEOUT, CANCELED, STEP_FAILED, SUCCESS} :
       (VerificationEnds(1, st) /\ ~silent)
       => review_score(change_queue[1], st) =
            (IF st = SUCCESS THEN 1
             ELSE IF Len(change_queue[1]) = 1 THEN -1 ELSE 0)]_vars

\* C19: while the offline sentinel file exists no new verification is
\* started: no poll is made and no MergeStatus row is created.
C19_SentinelStopsScheduling ==
  [][(sentinel /\ sentinel')
     => /\ ~(pc[1] = "backoff" /\ pc'[1] = "poll")
        /\ Len(merge_history') = Len(merge_history)]_vars

\* C20: the restart on a change of the watch manifest (the pid file is
\* removed and the program executed again) happens only at the top of a
\* pass of the loop or in the wait loop of the offline sentinel, never while
\* a MergeStatus row of this daemon is IN_PROGRESS or a verification runs.
C20_RestartOnlyBetweenPasses ==
  [][(pidfile # NoPid /\ pidfile' = NoPid)
     => /\ pc[1] \in {"loop", "wait"}
        /\ merge[1] = NoRid
        /\ \A r \in DOMAIN merge_history :
             merge_history[r].status # IN_PROGRESS]_vars

\* The daemon has restarted after a verification: the pid file is gone, the
\* process is at its start and the row of the verification is final.
C20_Witness ==
  /\ pidfile = NoPid
  /\ pc[1] = "off"
  /\ Len(merge_history) > 0
  /\ \A r \in DOMAIN merge_history : merge_history[r].status # IN_PROGRESS

\* C21: every cancel_merge request for a rid that already has its
\* Cancellation row reports success, whether the requests come one after
\* the other or together; no request ends in an error.
C21_CancelIsIdempotent ==
  \A w \in Workers :
    requests[w].at = "done" =>
      requests[w].response \in {"SUCCESS", "Already Canceled in DB"}

\* The times of the entries of a list that have a date and the value v.
TimesOf(entries, v) ==
  {label_time(entries[i].date) :
     i \in {j \in DOMAIN entries :
              entries[j].date # NoDate /\ entries[j].value = v}}

\* The times of the +1 entries that are later than every -1 entry.
ActivePlusOnes(entries) ==
  {t \in TimesOf(entries, 1) : \A m \in TimesOf(entries, -1) : t > m}

\* C22: when a list of label entries has a +1 later than every -1, the
\* fold gives score +1 and the time of the earliest such +1; entries
\* without date or value change nothing, and neither does an entry that is
\* there twice.
C22_FoldPicksEarliestActivePlusOne ==
  call.fn = "score_fold" =>
    /\ ActivePlusOnes(call.arg) # {} =>
         /\ call.ret.score = 1
         /\ \A t \in ActivePlusOnes(call.arg) : call.ret.time <= t
         /\ call.ret.time \in ActivePlusOnes(call.arg)
    /\ \A i \in DOMAIN call.arg :
         score_fold(Append(call.arg, call.arg[i])) = call.ret
    /\ \A e \in {x \in LabelEntries : x.date = NoDate \/ x.value = NoValue} :
         score_fold(Append(call.arg, e)) = call.ret

\* C28: when a list of label entries has no +1 later than every -1, the
\* fold gives score -1 with the current time as its time, and the change
\* is left out of the list of ready changes.
C28_NoActivePlusOneGivesNow ==
  (call.fn = "score_fold" /\ ActivePlusOnes(call.arg) = {}) =>
    /\ call.ret = [time |-> utcnow, score |-> -1]
    /\ ~call.listed

\* C23: when a KeyboardInterrupt ends the main loop and run returns, the
\* pid file no longer exists.
C23_InterruptRemovesPidFile ==
  [][Interrupt(1) => pidfile' = NoPid]_vars

\* The lines of a message that have a colon and the key k before it, in
\* the order of the message: the places of the lines.
LinesWithKey(lines, k) ==
  {i \in DOMAIN lines :
     Len(split_colon(lines[i])) = 2 /\ split_colon(lines[i])[1] = k}

\* The items of the lines at the places 1..n that have the key k, one
\* line after the other.
RECURSIVE ItemsUpTo(_, _, _)
ItemsUpTo(lines, k, n) ==
  IF n = 0 THEN << >>
  ELSE ItemsUpTo(lines, k, n - 1) \o
       (IF n \in LinesWithKey(lines, k)
        THEN issues_of(split_colon(lines[n])[2]) ELSE << >>)

\* C24: Closes and Resolves hold the trimmed comma-separated items of all
\* their lines in the order of the message; Priority is the integer of the
\* last Priority line whose value is an integer, a line whose value is no
\* integer changing nothing; every other key maps to the trimmed value of
\* its last line.
C24_MessageMeta ==
  call.fn = "get_message_meta" =>
    LET lines == call.arg
        ints == {i \in LinesWithKey(lines, << "Priority" >>) :
                   is_int(split_colon(lines[i])[2])}
        others == {split_colon(lines[i])[1] :
                     i \in {j \in DOMAIN lines :
                              Len(split_colon(lines[j])) = 2}}
                  \ {<< "Closes" >>, << "Resolves" >>, << "Priority" >>}
    IN /\ \A k \in {<< "Closes" >>, << "Resolves" >>} :
            call.ret[k] = ItemsUpTo(lines, k, Len(lines))
       /\ << "Priority" >> \in DOMAIN call.ret <=> ints # {}
       /\ ints # {} =>
            call.ret[<< "Priority" >>] =
              int_of(split_colon(lines[MaxOf(ints)])[2])
       /\ DOMAIN call.ret =
            {<< "Closes" >>, << "Resolves" >>} \cup others
            \cup (IF ints # {} THEN {<< "Priority" >>} ELSE {})
       /\ \A k \in others :
            call.ret[k] =
              strip(split_colon(lines[MaxOf(LinesWithKey(lines, k))])[2])

\* 'Closes:7,7' followed by 'Closes:7' gave three items.
C24_Witness ==
  /\ call.fn = "get_message_meta"
  /\ Len(call.arg) = 2
  /\ call.arg[1] = << "Closes", ":", "7", ",", "7" >>
  /\ call.arg[2] = << "Closes", ":", "7" >>
  /\ Len(call.ret[<< "Closes" >>]) = 3

\* The change has a queue of the configuration: a QueueSpec of its project
\* whose branch pattern matches its branch.
HasLocalQueue(c) ==
  \E i \in DOMAIN QueueSpec :
    /\ QueueSpec[i].project = ChangeInfo[c].project
    /\ ChangeInfo[c].branch \in QueueSpec[i].branch

\* C25: the scheduler takes the first entry of the queue that has a local
\* queue; the entries before it are skipped; request_queue is the entries
\* of the project and branch of that entry, in the order of the queue;
\* with no such entry no verification starts in the pass.
C25_SchedulerPicksFirstMatch ==
  call.fn = "get_requests_from_single_queue" =>
    LET q == call.arg
        hits == {k \in DOMAIN q : HasLocalQueue(q[k])}
    IN IF hits = {}
       THEN call.ret = << 0, << >> >> /\ ~call.starts
       ELSE LET k == CHOOSE i \in hits : \A j \in hits : i <= j
                rq == call.ret[2]
            IN /\ call.starts
               /\ call.ret[1] \in DOMAIN QueueSpec
               /\ QueueSpec[call.ret[1]].project = ChangeInfo[q[k]].project
               /\ ChangeInfo[q[k]].branch \in QueueSpec[call.ret[1]].branch
               /\ rq[1] = q[k]
               /\ \A j \in 1..(k - 1) : q[j] \notin Range(rq)
               /\ Range(rq) =
                    {c \in Range(q) :
                       /\ ChangeInfo[c].project = ChangeInfo[q[k]].project
                       /\ ChangeInfo[c].branch = ChangeInfo[q[k]].branch}
               /\ \A i, j \in DOMAIN rq :
                    i < j =>
                      \E a, b \in DOMAIN q : a < b /\ q[a] = rq[i] /\ q[b] = rq[j]

\* Two entries without a local queue come first and are skipped; the third
\* is taken; the fourth has the same queue but another branch and is left
\* out of request_queue.
C25_Witness ==
  /\ call.fn = "get_requests_from_single_queue"
  /\ call.arg = << "c5", "c7", "c6", "c1" >>
  /\ call.ret[2] = << "c6" >>
  /\ call.starts

\* The longest prefix of rq without a dirty change and with at most count
\* entries.
LongestCleanPrefix(rq, dirty, count) ==
  SubSeq(rq, 1, MaxOf({n \in 0..Len(rq) :
                         /\ n <= count
                         /\ \A i \in 1..n : rq[i] \notin dirty}))

\* C26: coalesce_queue is built only when coalesce_count > 0 and
\* request_queue has more than one entry; it is the longest prefix of
\* request_queue without a dirty change and with at most coalesce_count
\* entries; a coalesced verification runs iff it has more than one entry,
\* so it never holds a dirty change, more than coalesce_count changes or a
\* change outside that prefix.
C26_CoalesceQueueIsCleanPrefix ==
  call.fn = "coalesce" =>
    LET rq == call.arg.rq
        dirty == call.arg.dirty
        count == call.arg.count
    IN /\ call.built <=> (count > 0 /\ Len(rq) > 1)
       /\ call.built => call.ret = LongestCleanPrefix(rq, dirty, count)
       /\ call.coalesced <=>
            (call.built /\ Len(LongestCleanPrefix(rq, dirty, count)) > 1)
       /\ call.coalesced =>
            /\ Range(call.ret) \cap dirty = {}
            /\ Len(call.ret) <= count
            /\ call.ret = SubSeq(rq, 1, Len(call.ret))

\* Three requests, the third dirty: the first two are verified together.
C26_Witness ==
  /\ call.fn = "coalesce"
  /\ Len(call.arg.rq) = 3
  /\ call.arg.count = 3
  /\ call.arg.dirty = {call.arg.rq[3]}
  /\ call.coalesced
  /\ Len(call.ret) = 2

\* C27: a change in dirty_changes of a queue stays there, as long as the
\* daemon process lives, until a verification that holds it ends with
\* SUCCESS; a failed serial verification of a dirty change leaves it dirty.
C27_DirtyUntilSuccess ==
  [][\A n \in QueueNames :
       \A c \in dirty_changes[1][n] :
         (pc'[1] # "off" /\ c \notin dirty_changes'[1][n])
         => /\ VerificationEnds(1, SUCCESS)
            /\ c \in Range(change_queue[1])]_vars

\* C29: when a verification that pushed its staging branch to origin ends,
\* with SUCCESS, STEP_FAILED or CANCELED, the branch has been deleted from
\* origin.
C29_StagingBranchDeleted ==
  [][\A st \in {SUCCESS, STEP_FAILED, CANCELED} :
       (VerificationEnds(1, st) /\ ~silent /\ step_result[1] # NoResult)
       => ~staging_branch[1]]_vars

\* C30: the build steps run in the order of the list, one child at a
\* time: a step is started only after every step before it has exited
\* with code 0; a step that exits non-zero ends run_steps with the error
\* that makes the verification STEP_FAILED, no later step being started;
\* SUCCESS is returned only when every step has exited with code 0.
C30_StepsInOrder ==
  run # NoRun =>
    /\ run.at = "loop" =>
         /\ Len(run.exits) = run.step_idx
         /\ \A i \in DOMAIN run.exits : run.exits[i] = 0
    /\ (\E i \in DOMAIN run.exits : run.exits[i] # 0) =>
         /\ run.at = "done"
         /\ run.ret = Raised
         /\ status_after_steps(run.ret, FALSE) = STEP_FAILED
         /\ run.exits[Len(run.exits)] # 0
         /\ \A i \in 1..(Len(run.exits) - 1) : run.exits[i] = 0
         /\ run.step_idx = Len(run.exits) - 1
    /\ run.ret = Returned(SUCCESS) =>
         /\ Len(run.exits) = BuildSteps
         /\ \A i \in DOMAIN run.exits : run.exits[i] = 0
    /\ run.at = "done" => run.ret # NoResult

\* The first step exited with code 0, the second with code 1: run_steps
\* raised.
C30_Witness ==
  /\ run # NoRun
  /\ run.at = "done"
  /\ run.exits = << 0, 1 >>
  /\ run.ret = Raised

\* C31: kill_step returns after a bounded wait; SIGKILL is sent only to a
\* child still alive after the SIGTERM phase of KillTimeout seconds; and
\* kill_step gives a child up only after it has polled it for a further
\* KillTimeout seconds since the SIGKILL.
C31_KillStepWaits ==
  call.fn = "kill_step" =>
    /\ call.elapsed <= 2 * (KillTimeout + SleepSeconds + MaxLag)
    /\ call.kills > 0 => call.terms > 0 /\ call.elapsed > KillTimeout
    /\ (call.at = "done" /\ call.alive) => call.kill_wait >= KillTimeout

\* C32: when the staging of a verification fails, the status of the merge
\* is STEP_FAILED and the clone is not left dirty; from there no build step
\* is run and no change is submitted: the next step of the process, unless
\* it is interrupted, commits STEP_FAILED to the MergeStatus row, leaves the
\* clone as cleaned, and goes on to the next pass (or to the serial
\* verification after a coalesced one).
C32_FailedStagingIsStepFailed ==
  [][\A d \in Pids :
       /\ (Stage(d) /\ pc'[d] # "steps") =>
            /\ pc'[d] = "submit"
            /\ status'[d] = STEP_FAILED
            /\ step_result'[d] = NoResult
            /\ workspace'[queue_spec[d]] # "dirty"
       /\ (pc[d] = "submit" /\ step_result[d] = NoResult) =>
            /\ ~(SubmitWithRest(d) \/ SubmitWithCmd(d) \/ RunSteps(d))
            /\ pc'[d] \notin {"submit", "off"} =>
                 /\ merge_history'[merge[d]].status = STEP_FAILED
                 /\ merged' = merged
                 /\ workspace' = workspace
                 /\ pc'[d] \in {"loop", "create"}]_vars

\* The staging of a coalesced verification has failed on a git operation:
\* cleanup_repo has cleaned the clone.
C32_Witness ==
  /\ pc[1] = "submit"
  /\ step_result[1] = NoResult
  /\ status[1] = STEP_FAILED
  /\ coalescing[1]
  /\ workspace[queue_spec[1]] = "clean"

\* C33: cleanup_repo is called on the clone of the queue before the
\* staging of a verification and after the verification: no staging starts
\* on a dirty clone, and no verification leaves the clone dirty when it
\* returns.
C33_CleanBeforeAndAfter ==
  [][\A d \in Pids :
       /\ Stage(d) => workspace[queue_spec[d]] # "dirty"
       /\ FinishMerge(d) => workspace'[queue_spec[d]] # "dirty"]_vars

\* C34: whatever the offset and limit values of the query string, the
\* offset is at least 0 (0 when absent or not a number), the limit is
\* within 0..LimitCap (DefaultLimit when absent or not a number), and no
\* more rows than the limit are returned.
C34_PagingArgsClamped ==
  call.fn = "extract_common_args" =>
    /\ call.offset >= 0
    /\ (call.arg.offset = Absent \/ int_raises(call.arg.offset))
         => call.offset = 0
    /\ call.limit >= 0
    /\ call.limit <= LimitCap
    /\ (call.arg.limit = Absent \/ int_raises(call.arg.limit))
         => call.limit = DefaultLimit
    /\ call.ret <= call.limit

\* C35: a Cancellation row made for a merge after run_steps has returned
\* SUCCESS for it has no effect: making the row changes nothing but the
\* Cancellation table; with the row there the status of the merge stays
\* SUCCESS while its changes are submitted, SUCCESS is what is committed to
\* its MergeStatus row, and no submitted change is ever taken back.
C35_LateCancelHasNoEffect ==
  [][/\ cancellations' # cancellations =>
          UNCHANGED << merge_history, change_info, gerrit, pc, locals >>
     /\ merged \subseteq merged'
     /\ \A d \in Pids :
          (/\ pc[d] = "submit"
           /\ step_result[d] = Returned(SUCCESS)
           /\ status[d] = SUCCESS
           /\ merge[d] \in cancellations) =>
            /\ pc'[d] = "submit" => status'[d] = SUCCESS
            /\ FinishMerge(d) =>
                 merge_history'[merge[d]].status = SUCCESS]_vars

\* The merge under way has a Cancellation row, run_steps returned SUCCESS
\* for it, and the first of its two changes has been submitted.
C35_Witness ==
  /\ pc[1] = "submit"
  /\ step_result[1] = Returned(SUCCESS)
  /\ merge[1] \in cancellations
  /\ Len(change_queue[1]) = 2
  /\ submit_idx[1] = 2
  /\ change_queue[1][1] \in merged

\* C36: every Cancellation row has the rid of a MergeStatus row that
\* exists: cancel_merge makes a row only for the rid of an existing merge.
C36_CancellationOfExistingMerge ==
  \A rid \in cancellations : rid \in DOMAIN merge_history

C38_StatusChangesOnce ==
  [][\A r \in DOMAIN merge_history :
       /\ r \in DOMAIN merge_history'
       /\ merge_history'[r].project = merge_history[r].project
       /\ merge_history'[r].branch = merge_history[r].branch
       /\ merge_history'[r].status # merge_history[r].status =>
            /\ merge_history[r].status = IN_PROGRESS
            /\ merge_history'[r].status \in {SUCCESS, STEP_FAILED, CANCELED}]_vars

\* C39: the MergeStatus row of a verification has one MergeChange row for
\* each change of its change_queue, in the order of the queue: one for a
\* serial verification, from two to coalesce_count for a coalesced one,
\* never none; and every change of the rows is of the project and the
\* branch of the MergeStatus row.
C39_OneMergeChangePerChange ==
  call.fn = "create_sql_records" =>
    /\ call.merge_changes = call.arg.change_queue
    /\ call.merge_changes # << >>
    /\ ~call.arg.coalesced => Len(call.merge_changes) = 1
    /\ call.arg.coalesced =>
         /\ Len(call.merge_changes) >= 2
         /\ Len(call.merge_changes) <=
              QueueSpec[SpecIndex(call.arg.queue_spec)].coalesce_count
    /\ \A i \in DOMAIN call.merge_changes :
         /\ ChangeInfo[call.merge_changes[i]].project = call.merge.project
         /\ ChangeInfo[call.merge_changes[i]].branch = call.merge.branch

\* C40: with the daemon running on under the conditions of SpecDrain,
\* every change that is ready and matches a queue of the configuration is
\* in the end submitted or given Merge-Queue -1: from some moment on no
\* such change is ready.
C40_QueueDrains ==
  <>[](\A c \in Changes : HasLocalQueue(c) => c \notin ready)

====
